---- MODULE Spec2Model ----
(***************************************************************************)
(* Verification model of the analysis orchestration engine of              *)
(* dependabot-analyzer: one run of                                          *)
(* DependabotAnalyzer._process_alert_with_state (src/src/orchestrator/      *)
(* workflow.py) on one AnalysisState (src/src/orchestrator/state.py),       *)
(* together with DeepAnalyzer.analyze (src/src/agents/deep_analyzer.py)     *)
(* and the backend caller run_alert_analysis / AnalysisService._run_analysis*)
(* (src/github-alert-analyzer/backend/app/services/...).                    *)
(* Operations that are called on their own have their own specification:   *)
(* validate_and_correct, the verdict determination, the registry of        *)
(* running analyses, the AnalysisState methods, the code search of         *)
(* CodeAnalyzer (src/src/agents/code_analyzer.py) and the response parsing  *)
(* of LLMClient.ask_structured (src/src/llm/client.py).  Python strings     *)
(* are sequences of characters there, and the string and JSON operations   *)
(* are computed character by character.                                    *)
(*                                                                         *)
(* AnalysisState is a pydantic model.  The orchestrator reads               *)
(* state.max_refinement_iterations and state.reflection_results, and the   *)
(* backend reads result_state.reflection_results, but state.py declares    *)
(* none of them: reading an undeclared attribute of the model raises       *)
(* AttributeError.  The model keeps the declared field set                  *)
(* (AnalysisStateFields) and evaluates every such read against it.         *)
(***************************************************************************)
EXTENDS Integers, Sequences, FiniteSets, TLC

\* ------------------------------------------------------------ constants
\* AnalysisState.max_retries_per_agent
max_retries_per_agent == 3
\* DeepAnalyzer.analyze: max_retries of the inner loop over ask_structured
max_retries == 2
\* bound of the model: the longest code-match list a code search returns
MaxMatches == 2
\* bound of the model: the most reflection results a returned state holds
MaxReflections == 2
\* bound of the model: the most analyses started on one AnalysisService
MaxWorkflows == 3
\* bound of the model: the most calls made on one AnalysisState
MaxCalls == 5
\* bound of the model: the most files a searched repository holds
MaxFiles == 2

None == "None"
\* The None of an optional report or check (final_report, final_fp_check, report).
NoneObj == [none |-> TRUE]

\* The fields AnalysisState declares.
AnalysisStateFields ==
    {"alert", "code_matches", "code_context", "reports", "false_positive_checks",
     "code_analyzer_attempts", "deep_analyzer_attempts",
     "false_positive_checker_attempts", "max_retries_per_agent",
     "execution_history", "accumulated_context", "current_phase", "needs_retry",
     "retry_reason", "final_report", "final_fp_check"}

\* ------------------------------------------------------------ input sets
\* Alerts a run may be given (number, package, manifest path).
Alerts ==
    {[number |-> 1, package |-> "lodash", manifest_path |-> "package.json"],
     [number |-> 2, package |-> "axios", manifest_path |-> "services/api/package.json"]}
\* Files a CodeMatch may point into.
MatchFiles == {"src/app.js", "tests/app.test.js"}
Confidences == {"high", "medium", "low"}
Priorities == {"critical", "high", "medium", "low"}
\* What a call of LLMClient.ask_structured inside analyze can fail with:
\* the API call failed (RuntimeError), no stage parsed the response (ValueError),
\* or the parsed answer lacks a field / has a wrong type (KeyError, TypeError,
\* pydantic ValidationError raised inside the try block).
LLMErrors == {"LLM API call failed", "LLM did not return valid JSON", "KeyError"}
\* Exceptions of the code search and of the context fetch.
SearchErrors == {"GithubException"}
\* An exception that escapes DeepAnalyzer.analyze (raised outside its try block).
AnalyzeErrors == {"unexpected error"}

\* The answers of the reasoning service that build a valid AnalysisReport.
Analyses ==
    [is_exploitable : BOOLEAN, confidence : Confidences, priority : Priorities]

\* Sequences over S of length at most n.
SeqUpTo(S, n) == UNION {[1..k -> S] : k \in 0..n}

\* ------------------------------------------------------------ state
VARIABLES
    alert,                            \* AnalysisState.alert
    code_matches,                     \* AnalysisState.code_matches
    code_context,                     \* AnalysisState.code_context
    reports,                          \* AnalysisState.reports
    false_positive_checks,            \* AnalysisState.false_positive_checks
    code_analyzer_attempts,           \* AnalysisState.code_analyzer_attempts
    deep_analyzer_attempts,           \* AnalysisState.deep_analyzer_attempts
    false_positive_checker_attempts,  \* AnalysisState.false_positive_checker_attempts
    execution_history,                \* AnalysisState.execution_history
    accumulated_context,              \* AnalysisState.accumulated_context
    current_phase,                    \* AnalysisState.current_phase
    final_report,                     \* AnalysisState.final_report
    final_fp_check,                   \* AnalysisState.final_fp_check
    report,                           \* local of _process_alert_with_state
    refinement_iteration,             \* local of _process_alert_with_state
    attempt,                          \* loop variable of DeepAnalyzer.analyze
    last_error,                       \* local of DeepAnalyzer.analyze
    previous_attempts,                \* argument of the DeepAnalyzer.analyze call
    pc,                               \* position of the run
    exception,                        \* exception propagating out of the run
    workflow_status,                  \* AnalysisWorkflow.status
    final_verdict,                    \* AnalysisWorkflow.final_verdict
    reflection_results,               \* the reflection results run_alert_analysis reads
    heap,                             \* the AnalysisReport objects, by reference
    check,                            \* the FalsePositiveCheck given to validate_and_correct
    corrected,                        \* reference validate_and_correct returned (0: not called)
    running_analyses,                 \* AnalysisService.running_analyses (its keys)
    tasks,                            \* the background task of each workflow id
    increment_calls,                  \* increment_attempts calls made, by component name
    response,                         \* response.content ask_structured parses
    sent,                             \* what the response was written from
    parsed,                           \* what ask_structured returned or raised
    tree,                             \* the files of the repository the search walks
    query,                            \* the arguments and configuration of a code search
    extractions,                      \* calls of extract_vulnerable_functions made
    exploitability                    \* what analyze_exploitability returned

state_vars ==
    <<alert, code_matches, code_context, reports, false_positive_checks,
      code_analyzer_attempts, deep_analyzer_attempts,
      false_positive_checker_attempts, execution_history, accumulated_context,
      current_phase, final_report, final_fp_check>>
\* The variables of one run of the orchestrator and of its backend caller.
run_vars ==
    <<state_vars, report, refinement_iteration, attempt, last_error, previous_attempts, pc,
      exception, workflow_status, final_verdict>>
\* The variables of the operations that are modelled on their own.
correction_vars == <<heap, check, corrected>>
registry_vars == <<running_analyses, tasks>>
parse_vars == <<response, sent, parsed>>
search_vars == <<tree, query, extractions, exploitability>>
unit_vars ==
    <<reflection_results, correction_vars, registry_vars, increment_calls,
      parse_vars, search_vars>>
vars == <<run_vars, unit_vars>>

\* ------------------------------------------------------------ AnalysisState
\* AgentExecution(agent_name, success, error_message, metadata)
AgentExecution(agent_name, success, error_message, metadata) ==
    [agent_name |-> agent_name, success |-> success,
     error_message |-> error_message, metadata |-> metadata]

\* add_execution putting the record in front of the execution log.
add_execution_prepend(history, agent_name, success, error_message, metadata) ==
    <<AgentExecution(agent_name, success, error_message, metadata)>> \o history

\* add_execution: appends one record to the execution log.
add_execution(history, agent_name, success, error_message, metadata) ==
    Append(history, AgentExecution(agent_name, success, error_message, metadata))

\* The attempt_map of should_retry: only three components have a counter,
\* every other name reads 0.
attempt_map(agent_name) ==
    CASE agent_name = "code_analyzer" -> code_analyzer_attempts
      [] agent_name = "deep_analyzer" -> deep_analyzer_attempts
      [] agent_name = "false_positive_checker" -> false_positive_checker_attempts
      [] OTHER -> 0

\* A should_retry that lets a component run once more than its budget.
should_retry_off_by_one(agent_name) ==
    attempt_map(agent_name) <= max_retries_per_agent

\* should_retry(agent_name): attempts < max_retries_per_agent
should_retry(agent_name) ==
    attempt_map(agent_name) < max_retries_per_agent

\* increment_attempts(agent_name) on one counter: the new value of the counter
\* named `counter` when increment_attempts(agent_name) is called.
increment_attempts(agent_name, counter, value) ==
    IF agent_name = counter /\ counter \in
          {"code_analyzer", "deep_analyzer", "false_positive_checker"}
    THEN value + 1
    ELSE value

\* add_context replacing the accumulated context by the note.
add_context_overwrite(context, note) == <<note>>

\* add_context: a non-empty accumulated context gets the separator and the
\* note appended, an empty one becomes the note (the accumulated context is
\* kept as the sequence of its pieces; the notes the orchestrator passes are
\* never empty).
add_context(context, note) ==
    IF context # <<>> THEN context \o <<"---", note>> ELSE <<note>>

\* ------------------------------------------------------------ reports
\* The AnalysisReport built from a parsed answer (analyze, the try block).
AnalysisReport(a, analysis) ==
    [alert_number |-> a.number, package |-> a.package,
     is_exploitable |-> analysis.is_exploitable,
     confidence |-> analysis.confidence,
     priority |-> analysis.priority,
     reasoning |-> <<"reasoning of the service">>]

\* The report analyze returns when its last ask_structured attempt failed.
DefaultReport(a, err) ==
    [alert_number |-> a.number, package |-> a.package,
     is_exploitable |-> FALSE,
     confidence |-> "low",
     priority |-> "medium",
     reasoning |-> <<"Analysis failed due to LLM error", err>>]

\* A report is the default report of a failed analysis.
IsDefaultReport(r) == r.reasoning[1] = "Analysis failed due to LLM error"

\* state.reports.append(report) dropped.
reports_append_dropped(rs, r) == rs

\* state.reports.append(report)
reports_append(rs, r) == Append(rs, r)

\* ------------------------------------------------------------ the run
\* No operation modelled on its own is in progress.
CorrectionIdle == heap = <<>> /\ check = NoneObj /\ corrected = 0
RegistryIdle == running_analyses = {} /\ tasks = <<>>
ParseIdle == response = <<>> /\ sent = NoneObj /\ parsed = NoneObj
SearchIdle ==
    tree = <<>> /\ query = NoneObj /\ extractions = 0 /\ exploitability = NoneObj

UnitIdle ==
    /\ reflection_results = <<>>
    /\ CorrectionIdle
    /\ RegistryIdle
    /\ increment_calls = <<>>
    /\ ParseIdle
    /\ SearchIdle

Init ==
    /\ alert \in Alerts
    /\ code_matches = <<>>
    /\ code_context = None
    /\ reports = <<>>
    /\ false_positive_checks = <<>>
    /\ code_analyzer_attempts = 0
    /\ deep_analyzer_attempts = 0
    /\ false_positive_checker_attempts = 0
    /\ execution_history = <<>>
    /\ accumulated_context = <<>>
    /\ current_phase = "initial"
    /\ final_report = NoneObj
    /\ final_fp_check = NoneObj
    /\ report = NoneObj
    /\ refinement_iteration = 0
    /\ attempt = 0
    /\ last_error = None
    /\ previous_attempts = NoneObj
    /\ pc = "code_analysis"
    /\ exception = None
    /\ workflow_status = "running"
    /\ final_verdict = None
    /\ UnitIdle

\* Phase 1, the search returns: the matches are stored and the success logged.
CodeAnalysisOk(matches) ==
    /\ pc = "code_analysis"
    /\ current_phase' = "code_analysis"
    /\ code_analyzer_attempts' =
          increment_attempts("code_analyzer", "code_analyzer", code_analyzer_attempts)
    /\ code_matches' = matches
    /\ execution_history' =
          add_execution(execution_history, "code_analyzer", TRUE, None,
                        [matches_found |-> Len(matches)])
    /\ pc' = "code_context"
    /\ UNCHANGED <<alert, code_context, reports, false_positive_checks,
                   deep_analyzer_attempts, false_positive_checker_attempts,
                   accumulated_context, final_report, final_fp_check, report,
                   refinement_iteration, attempt, last_error, previous_attempts, exception,
                   workflow_status, final_verdict>>
    /\ UNCHANGED unit_vars

\* Phase 1, the search raises and the run is given up.
CodeAnalysisFailsEndsRun(err) ==
    /\ pc = "code_analysis"
    /\ current_phase' = "failed"
    /\ code_analyzer_attempts' =
          increment_attempts("code_analyzer", "code_analyzer", code_analyzer_attempts)
    /\ execution_history' =
          add_execution(execution_history, "code_analyzer", FALSE, err, <<>>)
    /\ pc' = "returned"
    /\ UNCHANGED <<alert, code_matches, code_context, reports, false_positive_checks,
                   deep_analyzer_attempts, false_positive_checker_attempts,
                   accumulated_context, final_report, final_fp_check, report,
                   refinement_iteration, attempt, last_error, previous_attempts, exception,
                   workflow_status, final_verdict>>
    /\ UNCHANGED unit_vars

\* Phase 1, the search raises: the failure is logged and the run goes on with no
\* matches.
CodeAnalysisFails(err) ==
    /\ pc = "code_analysis"
    /\ current_phase' = "code_analysis"
    /\ code_analyzer_attempts' =
          increment_attempts("code_analyzer", "code_analyzer", code_analyzer_attempts)
    /\ code_matches' = <<>>
    /\ execution_history' =
          add_execution(execution_history, "code_analyzer", FALSE, err, <<>>)
    /\ pc' = "code_context"
    /\ UNCHANGED <<alert, code_context, reports, false_positive_checks,
                   deep_analyzer_attempts, false_positive_checker_attempts,
                   accumulated_context, final_report, final_fp_check, report,
                   refinement_iteration, attempt, last_error, previous_attempts, exception,
                   workflow_status, final_verdict>>
    /\ UNCHANGED unit_vars

\* A context fetch that returns without leaving a record in the execution log.
GetCodeContextOkUnlogged ==
    /\ pc = "code_context"
    /\ code_context' = "manifest context"
    /\ current_phase' = "deep_analysis"
    /\ report' = NoneObj
    /\ refinement_iteration' = 0
    /\ pc' = "loop"
    /\ UNCHANGED <<alert, code_matches, reports, false_positive_checks,
                   code_analyzer_attempts, deep_analyzer_attempts,
                   false_positive_checker_attempts, execution_history,
                   accumulated_context, final_report, final_fp_check, attempt,
                   last_error, previous_attempts, exception, workflow_status,
                   final_verdict>>
    /\ UNCHANGED unit_vars

\* Phase 2, the context fetch returns; the run enters phase deep_analysis.
GetCodeContextOk ==
    /\ pc = "code_context"
    /\ code_context' = "manifest context"
    /\ execution_history' =
          add_execution(execution_history, "alert_fetcher", TRUE, None, <<>>)
    /\ current_phase' = "deep_analysis"
    /\ report' = NoneObj
    /\ refinement_iteration' = 0
    /\ pc' = "loop"
    /\ UNCHANGED <<alert, code_matches, reports, false_positive_checks,
                   code_analyzer_attempts, deep_analyzer_attempts,
                   false_positive_checker_attempts, accumulated_context,
                   final_report, final_fp_check, attempt, last_error, previous_attempts, exception,
                   workflow_status, final_verdict>>
    /\ UNCHANGED unit_vars

\* Phase 2, the context fetch raises: logged, a placeholder context is used.
GetCodeContextFails(err) ==
    /\ pc = "code_context"
    /\ code_context' = "context unavailable"
    /\ execution_history' =
          add_execution(execution_history, "alert_fetcher", FALSE, err, <<>>)
    /\ current_phase' = "deep_analysis"
    /\ report' = NoneObj
    /\ refinement_iteration' = 0
    /\ pc' = "loop"
    /\ UNCHANGED <<alert, code_matches, reports, false_positive_checks,
                   code_analyzer_attempts, deep_analyzer_attempts,
                   false_positive_checker_attempts, accumulated_context,
                   final_report, final_fp_check, attempt, last_error, previous_attempts, exception,
                   workflow_status, final_verdict>>
    /\ UNCHANGED unit_vars

\* Phase 2, get_code_context fails inside: it catches the exception itself and
\* returns the manifest path and the package name, which the orchestrator
\* stores and logs as a success.
GetCodeContextFallback(err) ==
    /\ pc = "code_context"
    /\ code_context' = "manifest path and package"
    /\ execution_history' =
          add_execution(execution_history, "alert_fetcher", TRUE, None, <<>>)
    /\ current_phase' = "deep_analysis"
    /\ report' = NoneObj
    /\ refinement_iteration' = 0
    /\ pc' = "loop"
    /\ UNCHANGED <<alert, code_matches, reports, false_positive_checks,
                   code_analyzer_attempts, deep_analyzer_attempts,
                   false_positive_checker_attempts, accumulated_context,
                   final_report, final_fp_check, attempt, last_error, previous_attempts, exception,
                   workflow_status, final_verdict>>
    /\ UNCHANGED unit_vars

\* A previous_context that is never given to analyze.
previous_context_withheld(context) == NoneObj

\* previous_context = state.accumulated_context if state.accumulated_context
\* else None: the previous_attempts argument of analyze.
previous_context(context) ==
    IF context # <<>> THEN [context |-> context] ELSE NoneObj

\* Top of the refinement loop: the attempt counter is incremented and analyze is
\* called; analyze starts its inner loop over ask_structured.
StartDeepAnalysis ==
    /\ pc = "loop"
    /\ deep_analyzer_attempts' =
          increment_attempts("deep_analyzer", "deep_analyzer", deep_analyzer_attempts)
    /\ previous_attempts' = previous_context(accumulated_context)
    /\ attempt' = 0
    /\ last_error' = None
    /\ pc' = "analyzing"
    /\ UNCHANGED <<alert, code_matches, code_context, reports,
                   false_positive_checks, code_analyzer_attempts,
                   false_positive_checker_attempts, execution_history,
                   accumulated_context, current_phase, final_report,
                   final_fp_check, report, refinement_iteration, exception,
                   workflow_status, final_verdict>>
    /\ UNCHANGED unit_vars

\* The reflection gate of the refinement loop, evaluated left to right:
\*   report and state.should_retry("reflection_agent")
\*          and refinement_iteration < state.max_refinement_iterations
\* The result is where the run goes next.  The third operand reads an attribute
\* AnalysisState does not declare, which raises AttributeError outside every try
\* block of the run; with the attribute declared the reflection step would follow.
\* (First, for comparison: a gate that sends a run holding a report back to the
\* top of the loop.)
ReflectionGateRetries(rep) == "loop"

\* The gate as coded.
ReflectionGate(rep) ==
    IF rep = NoneObj THEN "after_loop"
    ELSE IF ~should_retry("reflection_agent") THEN "after_loop"
    ELSE IF "max_refinement_iterations" \notin AnalysisStateFields THEN "raised"
    ELSE "reflecting"

\* analyze returned report r: the orchestrator appends it to reports, makes it the
\* final report, logs the success and evaluates the reflection gate.
AnalyzeReturned(r) ==
    /\ report' = r
    /\ reports' = reports_append(reports, r)
    /\ final_report' = r
    /\ execution_history' =
          add_execution(execution_history, "deep_analyzer", TRUE, None,
                        [confidence |-> r.confidence,
                         attempt |-> deep_analyzer_attempts])
    /\ pc' = ReflectionGate(r)
    /\ exception' = IF pc' = "raised" THEN "AttributeError" ELSE None
    /\ UNCHANGED <<alert, code_matches, code_context, false_positive_checks,
                   code_analyzer_attempts, deep_analyzer_attempts,
                   false_positive_checker_attempts, accumulated_context,
                   current_phase, final_fp_check, refinement_iteration, attempt,
                   previous_attempts, workflow_status, final_verdict>>
    /\ UNCHANGED unit_vars

\* analyze: ask_structured returns an answer that builds a valid report.
AskStructuredOk(analysis) ==
    /\ pc = "analyzing"
    /\ UNCHANGED last_error
    /\ AnalyzeReturned(AnalysisReport(alert, analysis))

\* analyze: ask_structured (or building the report from its answer) raises on an
\* attempt that is not the last: the error is printed and the call repeated.
AskStructuredFailsRetry(err) ==
    /\ pc = "analyzing"
    /\ attempt < max_retries - 1
    /\ last_error' = err
    /\ attempt' = attempt + 1
    /\ UNCHANGED <<state_vars, report, refinement_iteration, previous_attempts,
                   pc, exception, workflow_status, final_verdict>>
    /\ UNCHANGED unit_vars

\* analyze: the last attempt raises: analyze returns the default report.
AskStructuredFailsDefault(err) ==
    /\ pc = "analyzing"
    /\ attempt = max_retries - 1
    /\ last_error' = err
    /\ AnalyzeReturned(DefaultReport(alert, err))

\* A failed reasoner attempt that sends a run with budget left back to phase
\* code_analysis before the loop repeats.
DeepAnalysisExceptionRestartsSearch(err) ==
    /\ pc = "analyzing"
    /\ execution_history' =
          add_execution(execution_history, "deep_analyzer", FALSE, err,
                        [attempt |-> deep_analyzer_attempts])
    /\ IF should_retry("deep_analyzer")
       THEN /\ accumulated_context' =
                  add_context(accumulated_context,
                              <<"Previous attempt failed", deep_analyzer_attempts, err>>)
            /\ pc' = "loop"
            /\ current_phase' = "code_analysis"
       ELSE /\ current_phase' = "failed"
            /\ pc' = "returned"
            /\ UNCHANGED accumulated_context
    /\ UNCHANGED <<alert, code_matches, code_context, reports,
                   false_positive_checks, code_analyzer_attempts,
                   deep_analyzer_attempts, false_positive_checker_attempts,
                   final_report, final_fp_check, report, refinement_iteration,
                   attempt, last_error, previous_attempts, exception,
                   workflow_status, final_verdict>>
    /\ UNCHANGED unit_vars

\* An exception escapes analyze: the orchestrator logs the failure, and either
\* notes it in the accumulated context and repeats the loop, or gives up.
DeepAnalysisException(err) ==
    /\ pc = "analyzing"
    /\ execution_history' =
          add_execution(execution_history, "deep_analyzer", FALSE, err,
                        [attempt |-> deep_analyzer_attempts])
    /\ IF should_retry("deep_analyzer")
       THEN /\ accumulated_context' =
                  add_context(accumulated_context,
                              <<"Previous attempt failed", deep_analyzer_attempts, err>>)
            /\ pc' = "loop"
            /\ UNCHANGED current_phase
       ELSE /\ current_phase' = "failed"
            /\ pc' = "returned"
            /\ UNCHANGED accumulated_context
    /\ UNCHANGED <<alert, code_matches, code_context, reports,
                   false_positive_checks, code_analyzer_attempts,
                   deep_analyzer_attempts, false_positive_checker_attempts,
                   final_report, final_fp_check, report, refinement_iteration,
                   attempt, last_error, previous_attempts, exception, workflow_status, final_verdict>>
    /\ UNCHANGED unit_vars

\* ------------------------------------------------------------ the backend caller
\* The verdict of run_alert_analysis from the reflection results, the
\* false-positive check and the final report of the returned state.
ReportVerdictInverted(rep) ==
    IF rep.is_exploitable THEN "false_positive" ELSE "true_positive"

ReportVerdict(rep) ==
    IF rep.is_exploitable THEN "true_positive" ELSE "false_positive"

FpVerdict(fp) ==
    IF fp.is_false_positive THEN "false_positive" ELSE "true_positive"

\* The verdict taken from the false-positive check whenever there is one.
DetermineVerdictFpFirst(reflections, fp, rep) ==
    IF fp # NoneObj THEN FpVerdict(fp)
    ELSE IF rep # NoneObj THEN ReportVerdict(rep)
    ELSE "needs_review"

\* The verdict taken from the final report whenever there is one.
DetermineVerdictReportFirst(reflections, fp, rep) ==
    IF rep # NoneObj THEN ReportVerdict(rep)
    ELSE IF fp # NoneObj THEN FpVerdict(fp)
    ELSE "needs_review"

DetermineVerdict(reflections, fp, rep) ==
    LET has_confident_fp_check == fp # NoneObj /\ fp.confidence = "high"
    IN  IF reflections # <<>>
        THEN LET last_reflection == reflections[Len(reflections)]
             IN  IF /\ ~last_reflection.needs_refinement
                    /\ last_reflection.confidence_assessment = "acceptable"
                 THEN IF rep # NoneObj THEN ReportVerdict(rep) ELSE "needs_review"
                 ELSE IF /\ has_confident_fp_check
                         /\ last_reflection.confidence_assessment # "contradictory"
                 THEN FpVerdict(fp)
                 ELSE IF last_reflection.confidence_assessment = "contradictory"
                 THEN IF has_confident_fp_check THEN FpVerdict(fp)
                      ELSE "needs_review"
                 ELSE IF has_confident_fp_check THEN FpVerdict(fp)
                      ELSE "needs_review"
        ELSE IF fp # NoneObj THEN FpVerdict(fp)
        ELSE IF rep # NoneObj THEN ReportVerdict(rep)
        ELSE "needs_review"

\* _process_alert_with_state returned the state: run_alert_analysis copies the
\* execution log and reads result_state.reflection_results to determine the
\* verdict.  AnalysisState declares no such attribute, so the read raises
\* AttributeError; run_alert_analysis logs and re-raises it and _run_analysis
\* marks the workflow failed, storing no verdict.
RunAlertAnalysisReturned ==
    /\ pc = "returned"
    /\ IF "reflection_results" \in AnalysisStateFields
       THEN /\ final_verdict' = DetermineVerdict(<<>>, final_fp_check, final_report)
            /\ workflow_status' = "completed"
            /\ UNCHANGED exception
       ELSE /\ exception' = "AttributeError"
            /\ workflow_status' = "failed"
            /\ UNCHANGED final_verdict
    /\ pc' = "finished"
    /\ UNCHANGED <<state_vars, report, refinement_iteration, attempt, last_error, previous_attempts>>
    /\ UNCHANGED unit_vars

\* _process_alert_with_state raised: run_alert_analysis logs and re-raises, and
\* _run_analysis marks the workflow failed, storing no verdict.
RunAlertAnalysisRaised ==
    /\ pc = "raised"
    /\ workflow_status' = "failed"
    /\ pc' = "finished"
    /\ UNCHANGED <<state_vars, report, refinement_iteration, attempt, last_error, previous_attempts,
                   exception, final_verdict>>
    /\ UNCHANGED unit_vars

Next ==
    \/ \E matches \in SeqUpTo(MatchFiles, MaxMatches) : CodeAnalysisOk(matches)
    \/ \E err \in SearchErrors : CodeAnalysisFails(err)
    \/ GetCodeContextOk
    \/ \E err \in SearchErrors : GetCodeContextFails(err)
    \/ \E err \in SearchErrors : GetCodeContextFallback(err)
    \/ StartDeepAnalysis
    \/ \E analysis \in Analyses : AskStructuredOk(analysis)
    \/ \E err \in LLMErrors : AskStructuredFailsRetry(err)
    \/ \E err \in LLMErrors : AskStructuredFailsDefault(err)
    \/ \E err \in AnalyzeErrors : DeepAnalysisException(err)
    \/ RunAlertAnalysisReturned
    \/ RunAlertAnalysisRaised

Spec == Init /\ [][Next]_vars

\* ------------------------------------------------------------ validate_and_correct
\* The run variables of an orchestrator that is not running.
idle_vars ==
    <<state_vars, refinement_iteration, attempt, last_error, previous_attempts, exception,
      workflow_status>>

RunIdle ==
    /\ alert = CHOOSE a \in Alerts : a.number = 1
    /\ code_matches = <<>>
    /\ code_context = None
    /\ reports = <<>>
    /\ false_positive_checks = <<>>
    /\ code_analyzer_attempts = 0
    /\ deep_analyzer_attempts = 0
    /\ false_positive_checker_attempts = 0
    /\ execution_history = <<>>
    /\ accumulated_context = <<>>
    /\ current_phase = "initial"
    /\ final_report = NoneObj
    /\ final_fp_check = NoneObj
    /\ refinement_iteration = 0
    /\ attempt = 0
    /\ last_error = None
    /\ previous_attempts = NoneObj
    /\ exception = None
    /\ workflow_status = "running"

\* The reports analyze can return for the alert.
AnalyzeReports ==
    {AnalysisReport(CHOOSE a \in Alerts : a.number = 1, analysis) :
        analysis \in Analyses}
    \cup {DefaultReport(CHOOSE a \in Alerts : a.number = 1, err) : err \in LLMErrors}

\* The FalsePositiveCheck records check can build from the reviewer's answer.
\* An optional field is a sequence: <<>> is None, <<v>> is the value v; the
\* reviewer may answer a priority with the empty string.
FalsePositiveChecks ==
    [is_false_positive : BOOLEAN,
     confidence : Confidences,
     reasoning : {"reasoning of the reviewer"},
     corrected_priority : {<<>>, <<"">>} \cup {<<p>> : p \in Priorities},
     corrected_exploitability : {<<>>, <<TRUE>>, <<FALSE>>}]

\* report.model_copy() handing back the report itself.
model_copy_alias(h, ref) == h

\* report.model_copy(): a new object with the fields of the original; its
\* reference is the last of the heap.
model_copy(h, ref) == Append(h, h[ref])

\* The corrections with the corrected priority ignored.
CorrectedKeepsPriority(rep, chk) ==
    [rep EXCEPT
        !.is_exploitable = IF chk.corrected_exploitability # <<>>
                           THEN chk.corrected_exploitability[1] ELSE @,
        !.reasoning = @ \o <<"FALSE POSITIVE CHECK", chk.reasoning>>]

\* The fields validate_and_correct assigns to the copy: the corrected
\* exploitability when it is not None, the corrected priority when it is
\* truthy, and the reasoning with the marker and the reviewer's reasoning
\* appended.
Corrected(rep, chk) ==
    [rep EXCEPT
        !.is_exploitable = IF chk.corrected_exploitability # <<>>
                           THEN chk.corrected_exploitability[1] ELSE @,
        !.priority = IF chk.corrected_priority \notin {<<>>, <<"">>}
                     THEN chk.corrected_priority[1] ELSE @,
        !.reasoning = @ \o <<"FALSE POSITIVE CHECK", chk.reasoning>>]

\* A report (object 1 of the heap, the one the reports history and final_report
\* refer to) and a check are given to validate_and_correct.
InitCorrection ==
    /\ RunIdle
    /\ report \in AnalyzeReports
    /\ heap = <<report>>
    /\ check \in FalsePositiveChecks
    /\ corrected = 0
    /\ pc = "validate_and_correct"
    /\ final_verdict = None
    /\ reflection_results = <<>>
    /\ RegistryIdle
    /\ increment_calls = <<>>
    /\ ParseIdle
    /\ SearchIdle

\* validate_and_correct(report, check): the report itself when the check does
\* not flag a false positive, otherwise a corrected copy.
ValidateAndCorrect ==
    /\ pc = "validate_and_correct"
    /\ IF ~check.is_false_positive
       THEN /\ corrected' = 1
            /\ UNCHANGED heap
       ELSE LET h == model_copy(heap, 1)
                c == Len(h)
            IN  /\ heap' = [h EXCEPT ![c] = Corrected(h[c], check)]
                /\ corrected' = c
    /\ pc' = "corrected"
    /\ UNCHANGED <<idle_vars, report, check, final_verdict, reflection_results,
                   registry_vars, increment_calls, parse_vars, search_vars>>

NextCorrection == ValidateAndCorrect

SpecCorrection == InitCorrection /\ [][NextCorrection]_vars

\* ------------------------------------------------------------ verdict determination
\* The ReflectionResult records reflect can return (the fields the verdict
\* determination reads).
ReflectionResults ==
    [needs_refinement : BOOLEAN,
     confidence_assessment : {"acceptable", "needs_improvement", "contradictory"}]

\* The final_report of a state whose reasoner report is rep and whose
\* false-positive check is chk: the corrected copy when the check flagged a
\* false positive, the report itself otherwise.
FinalReportOf(rep, chk) ==
    IF chk # NoneObj /\ chk.is_false_positive THEN Corrected(rep, chk) ELSE rep

\* The returned state the verdict is determined from: its reflection results,
\* its final_fp_check (check) and the last report of the reasoner (report),
\* from which its final_report follows.  Reflection results exist only together
\* with a report, a false-positive check only for an exploitable report.
InitVerdict ==
    /\ RunIdle
    /\ reflection_results \in SeqUpTo(ReflectionResults, MaxReflections)
    /\ check \in {NoneObj} \cup {c \in FalsePositiveChecks :
                                    c.corrected_priority = <<>>}
    /\ report \in {NoneObj} \cup AnalyzeReports
    /\ reflection_results # <<>> => report # NoneObj
    /\ check # NoneObj => (report # NoneObj /\ report.is_exploitable)
    /\ final_verdict = None
    /\ pc = "determine_verdict"
    /\ heap = <<>>
    /\ corrected = 0
    /\ RegistryIdle
    /\ increment_calls = <<>>
    /\ ParseIdle
    /\ SearchIdle

\* run_alert_analysis, the verdict determination on the returned state.
DetermineFinalVerdict ==
    /\ pc = "determine_verdict"
    /\ final_verdict' =
          DetermineVerdict(reflection_results, check, FinalReportOf(report, check))
    /\ pc' = "verdict_determined"
    /\ UNCHANGED <<idle_vars, report, unit_vars>>

NextVerdict == DetermineFinalVerdict

SpecVerdict == InitVerdict /\ [][NextVerdict]_vars

\* ------------------------------------------------------------ the registry
\* AnalysisService on the event loop of the backend.  Workflow ids are the
\* fresh ids of the workflow records, here 1, 2, ... in the order of creation;
\* tasks[id] is the background task of workflow id and the status of its
\* record.  A coroutine runs without interruption between two awaits, so
\* start_analysis (which awaits nothing) is one step and _run_analysis is two:
\* up to its await of run_alert_analysis, and from there to its end.
InitRegistry ==
    /\ RunIdle
    /\ report = NoneObj
    /\ final_verdict = None
    /\ pc = "serving"
    /\ reflection_results = <<>>
    /\ CorrectionIdle
    /\ RegistryIdle
    /\ increment_calls = <<>>
    /\ ParseIdle
    /\ SearchIdle

\* self.running_analyses[workflow_id] = task
register_running(ra, workflow_id) == ra \cup {workflow_id}

\* The finally block of _run_analysis leaving the registry as it is.
remove_running_skipped(ra, workflow_id) == ra

\* if workflow_id in self.running_analyses: del self.running_analyses[workflow_id]
remove_running(ra, workflow_id) ==
    IF workflow_id \in ra THEN ra \ {workflow_id} ELSE ra

is_running(workflow_id) == workflow_id \in running_analyses

registry_unchanged ==
    UNCHANGED <<run_vars, reflection_results, correction_vars, increment_calls,
                parse_vars, search_vars>>

\* start_analysis: the workflow record is created, the task is created and
\* registered under the id of the record, the id is returned.
start_analysis ==
    /\ Len(tasks) < MaxWorkflows
    /\ tasks' = Append(tasks, [task |-> "pending", status |-> "pending"])
    /\ running_analyses' = register_running(running_analyses, Len(tasks) + 1)
    /\ registry_unchanged

\* _run_analysis starts: the record is found and set running, the task
\* suspends in run_alert_analysis.
RunAnalysisStarts(workflow_id) ==
    /\ tasks[workflow_id].task = "pending"
    /\ tasks' = [tasks EXCEPT ![workflow_id] = [task |-> "running", status |-> "running"]]
    /\ UNCHANGED running_analyses
    /\ registry_unchanged

\* _run_analysis starts and finds no workflow record: it returns at once,
\* through the finally block.
RunAnalysisNoWorkflow(workflow_id) ==
    /\ tasks[workflow_id].task = "pending"
    /\ tasks' = [tasks EXCEPT ![workflow_id] = [task |-> "done", status |-> "deleted"]]
    /\ running_analyses' = remove_running(running_analyses, workflow_id)
    /\ registry_unchanged

\* run_alert_analysis returned: the record is completed, the finally block
\* removes the entry and the task finishes.
RunAnalysisCompletes(workflow_id) ==
    /\ tasks[workflow_id].task = "running"
    /\ tasks' = [tasks EXCEPT ![workflow_id] = [task |-> "done", status |-> "completed"]]
    /\ running_analyses' = remove_running(running_analyses, workflow_id)
    /\ registry_unchanged

\* The alert is not found or run_alert_analysis raised: the record is marked
\* failed, the finally block removes the entry and the task finishes.
RunAnalysisFails(workflow_id) ==
    /\ tasks[workflow_id].task \in {"pending", "running"}
    /\ tasks' = [tasks EXCEPT ![workflow_id] = [task |-> "done", status |-> "failed"]]
    /\ running_analyses' = remove_running(running_analyses, workflow_id)
    /\ registry_unchanged

NextRegistry ==
    \/ start_analysis
    \/ \E workflow_id \in 1..Len(tasks) : RunAnalysisStarts(workflow_id)
    \/ \E workflow_id \in 1..Len(tasks) : RunAnalysisNoWorkflow(workflow_id)
    \/ \E workflow_id \in 1..Len(tasks) : RunAnalysisCompletes(workflow_id)
    \/ \E workflow_id \in 1..Len(tasks) : RunAnalysisFails(workflow_id)

SpecRegistry == InitRegistry /\ [][NextRegistry]_vars

\* ------------------------------------------------------------ AnalysisState
\* The component names the orchestrator passes to AnalysisState.
ComponentNames ==
    {"code_analyzer", "deep_analyzer", "false_positive_checker", "reflection_agent"}

\* A fresh AnalysisState on which add_execution, add_context and
\* increment_attempts are called in any order.
InitState ==
    /\ RunIdle
    /\ report = NoneObj
    /\ final_verdict = None
    /\ pc = "state"
    /\ reflection_results = <<>>
    /\ CorrectionIdle
    /\ RegistryIdle
    /\ increment_calls = [agent_name \in ComponentNames |-> 0]
    /\ ParseIdle
    /\ SearchIdle

\* The number of calls made on the AnalysisState so far.
CallsMade ==
    Len(execution_history) + (Len(accumulated_context) + 1) \div 2
    + increment_calls["code_analyzer"] + increment_calls["deep_analyzer"]
    + increment_calls["false_positive_checker"] + increment_calls["reflection_agent"]

state_unchanged ==
    UNCHANGED <<alert, code_matches, code_context, reports, false_positive_checks,
                current_phase, final_report, final_fp_check, report,
                refinement_iteration, attempt, last_error, previous_attempts, pc, exception,
                workflow_status, final_verdict, reflection_results,
                correction_vars, registry_vars, parse_vars, search_vars>>

\* state.add_execution(agent_name, success, error_message)
AddExecution(agent_name, success) ==
    /\ pc = "state"
    /\ CallsMade < MaxCalls
    /\ execution_history' =
          add_execution(execution_history, agent_name, success,
                        IF success THEN None ELSE "error", <<>>)
    /\ UNCHANGED <<accumulated_context, code_analyzer_attempts,
                   deep_analyzer_attempts, false_positive_checker_attempts,
                   increment_calls>>
    /\ state_unchanged

\* state.add_context(context)
AddContext(note) ==
    /\ pc = "state"
    /\ CallsMade < MaxCalls
    /\ accumulated_context' = add_context(accumulated_context, note)
    /\ UNCHANGED <<execution_history, code_analyzer_attempts,
                   deep_analyzer_attempts, false_positive_checker_attempts,
                   increment_calls>>
    /\ state_unchanged

\* state.increment_attempts(agent_name)
IncrementAttempts(agent_name) ==
    /\ pc = "state"
    /\ CallsMade < MaxCalls
    /\ increment_calls' = [increment_calls EXCEPT ![agent_name] = @ + 1]
    /\ code_analyzer_attempts' =
          increment_attempts(agent_name, "code_analyzer", code_analyzer_attempts)
    /\ deep_analyzer_attempts' =
          increment_attempts(agent_name, "deep_analyzer", deep_analyzer_attempts)
    /\ false_positive_checker_attempts' =
          increment_attempts(agent_name, "false_positive_checker",
                             false_positive_checker_attempts)
    /\ UNCHANGED <<execution_history, accumulated_context>>
    /\ state_unchanged

NextState ==
    \/ \E agent_name \in {"code_analyzer", "deep_analyzer"}, success \in BOOLEAN :
          AddExecution(agent_name, success)
    \/ \E note \in {"Previous attempt failed", "Reflection iteration"} :
          AddContext(note)
    \/ \E agent_name \in ComponentNames : IncrementAttempts(agent_name)

SpecState == InitState /\ [][NextState]_vars

\* ------------------------------------------------------------ str
\* A Python str is the sequence of its characters.
UpperCase ==
    <<"A", "B", "C", "D", "E", "F", "G", "H", "I", "J", "K", "L", "M", "N", "O", "P", "Q", "R",
    "S", "T", "U", "V", "W", "X", "Y", "Z">>

LowerCase ==
    <<"a", "b", "c", "d", "e", "f", "g", "h", "i", "j", "k", "l", "m", "n", "o", "p", "q", "r",
    "s", "t", "u", "v", "w", "x", "y", "z">>

Whitespace == {" ", "\n", "\t", "\r"}

\* sub in s
Contains(s, sub) ==
    \E i \in 0..(Len(s) - Len(sub)) : SubSeq(s, i + 1, i + Len(sub)) = sub

\* s.startswith(prefix)
startswith(s, prefix) ==
    Len(prefix) <= Len(s) /\ SubSeq(s, 1, Len(prefix)) = prefix

\* s.endswith(suffix)
endswith(s, suffix) ==
    Len(suffix) <= Len(s) /\ SubSeq(s, Len(s) - Len(suffix) + 1, Len(s)) = suffix

\* s.lower()
lower(s) ==
    [i \in 1..Len(s) |->
        IF \E k \in 1..26 : UpperCase[k] = s[i]
        THEN LowerCase[CHOOSE k \in 1..26 : UpperCase[k] = s[i]]
        ELSE s[i]]

\* s.lstrip(), s.rstrip(), s.strip()
RECURSIVE lstrip(_)
lstrip(s) ==
    IF s # <<>> /\ Head(s) \in Whitespace THEN lstrip(Tail(s)) ELSE s

RECURSIVE rstrip(_)
rstrip(s) ==
    IF s # <<>> /\ s[Len(s)] \in Whitespace
    THEN rstrip(SubSeq(s, 1, Len(s) - 1))
    ELSE s

strip(s) == lstrip(rstrip(s))

\* s.find(sub) and s.rfind(sub), counted from 0; -1 when sub is not in s
find(s, sub) ==
    IF Contains(s, sub)
    THEN CHOOSE i \in 0..(Len(s) - Len(sub)) :
            /\ SubSeq(s, i + 1, i + Len(sub)) = sub
            /\ \A j \in 0..(i - 1) : SubSeq(s, j + 1, j + Len(sub)) # sub
    ELSE -1

rfind(s, sub) ==
    IF Contains(s, sub)
    THEN CHOOSE i \in 0..(Len(s) - Len(sub)) :
            /\ SubSeq(s, i + 1, i + Len(sub)) = sub
            /\ \A j \in (i + 1)..(Len(s) - Len(sub)) :
                  SubSeq(s, j + 1, j + Len(sub)) # sub
    ELSE -1

\* s.split(sep): the pieces of s between the occurrences of sep
RECURSIVE split(_, _)
split(s, sep) ==
    IF Contains(s, sep)
    THEN <<SubSeq(s, 1, find(s, sep))>>
         \o split(SubSeq(s, find(s, sep) + Len(sep) + 1, Len(s)), sep)
    ELSE <<s>>

\* sep.join(parts)
RECURSIVE join(_, _)
join(sep, parts) ==
    IF parts = <<>> THEN <<>>
    ELSE IF Len(parts) = 1 THEN parts[1]
    ELSE parts[1] \o sep \o join(sep, Tail(parts))

\* s[a:b] for 0 <= a and 0 <= b
Slice(s, a, b) == SubSeq(s, a + 1, IF b < Len(s) THEN b ELSE Len(s))

\* The concatenation of a sequence of sequences.
RECURSIVE Flatten(_)
Flatten(ss) == IF ss = <<>> THEN <<>> ELSE Head(ss) \o Flatten(Tail(ss))

\* ------------------------------------------------------------ CodeAnalyzer
\* CodeAnalyzer.SKIP_DIRS
SKIP_DIRS ==
    {<<"t","e","s","t">>, <<"t","e","s","t","s">>, <<"_","_","t","e","s","t","s","_","_">>,
    <<"_","_","m","o","c","k","s","_","_">>, <<"f","i","x","t","u","r","e","s">>,
    <<"e","2","e">>, <<"n","o","d","e","_","m","o","d","u","l","e","s">>, <<"v","e","n","v">>,
    <<".","v","e","n","v">>, <<"e","n","v">>, <<".","e","n","v">>, <<"d","i","s","t">>,
    <<"b","u","i","l","d">>, <<"o","u","t">>, <<".","n","e","x","t">>, <<".","n","u","x","t">>,
    <<".","g","i","t">>, <<"c","o","v","e","r","a","g","e">>,
    <<".","n","y","c","_","o","u","t","p","u","t">>, <<"v","e","n","d","o","r">>,
    <<"t","h","i","r","d","_","p","a","r","t","y">>, <<"e","x","t","e","r","n","a","l">>}

\* CodeAnalyzer.TEST_FILE_PATTERNS
TEST_FILE_PATTERNS ==
    {<<".","t","e","s","t",".">>, <<".","s","p","e","c",".">>, <<"_","t","e","s","t",".">>,
    <<"_","s","p","e","c",".">>, <<".","t","e","s","t","s",".">>,
    <<".","s","p","e","c","s",".">>, <<"t","e","s","t","_">>, <<"s","p","e","c","_">>}

\* The extensions _is_code_file accepts.
code_extensions ==
    {<<".","j","s">>, <<".","t","s">>, <<".","j","s","x">>, <<".","t","s","x">>,
    <<".","p","y">>, <<".","j","a","v","a">>, <<".","g","o">>, <<".","r","b">>,
    <<".","p","h","p">>, <<".","c","s">>, <<".","c","p","p">>, <<".","c">>}

\* The line contents _is_test_or_comment takes for test code.
test_indicators ==
    {<<"t","e","s","t","(">>, <<"d","e","s","c","r","i","b","e","(">>, <<"i","t","(">>,
    <<"e","x","p","e","c","t","(">>, <<"a","s","s","e","r","t",".">>, <<"j","e","s","t",".">>,
    <<"m","o","c","h","a",".">>, <<"c","h","a","i",".">>, <<"s","i","n","o","n",".">>,
    <<"p","y","t","e","s","t",".">>, <<"u","n","i","t","t","e","s","t",".">>,
    <<"c","u","r","l"," ">>, <<"e","c","h","o"," ">>, <<"/","/"," ","t","e","s","t">>,
    <<"#"," ","t","e","s","t">>, <<"@","t","e","s","t">>, <<"@","p","y","t","e","s","t">>}

\* The path fragments analyze_exploitability takes for test code.
test_path_markers ==
    {<<"t","e","s","t">>, <<"_","_","t","e","s","t","_","_">>, <<"s","p","e","c">>,
    <<"m","o","c","k">>}

\* CodeAnalyzer.default_max_files
default_max_files == 150
\* The number of files _generic_package_search reads.
generic_search_files == 10

\* The package of the searches.
Express == <<"e","x","p","r","e","s","s">>

\* VULNERABILITY_PATTERNS["express"]["prototype-pollution"].  Each regex of
\* the entry is a literal with its metacharacters escaped (express\.json\(\),
\* express\.urlencoded\(), so re.search with it is a substring test; the regex
\* is written here as the literal it matches.
PrototypePollutionPattern ==
    [package |-> Express,
     vulnerability_id |-> "prototype-pollution",
     patterns |-> <<<<"e","x","p","r","e","s","s",".","j","s","o","n","(",")">>,
    <<"e","x","p","r","e","s","s",".","u","r","l","e","n","c","o","d","e","d","(">>>>]

\* A pattern extract_vulnerable_functions builds from the answer of the
\* reasoning service (the regex app\.listen\().
ExtractedPattern ==
    [package |-> Express,
     vulnerability_id |-> "extracted",
     patterns |-> <<<<"a","p","p",".","l","i","s","t","e","n","(">>>>]

\* self._get_vulnerability_pattern(package_name, vulnerability_id)
_get_vulnerability_pattern(package_name, vulnerability_id) ==
    IF package_name = Express /\ vulnerability_id = "prototype-pollution"
    THEN PrototypePollutionPattern
    ELSE NoneObj

\* The lines of the files of the searched repository.
RequireLine == <<"c","o","n","s","t"," ","e","x","p","r","e","s","s"," ","="," ","r","e","q","u","i","r","e","(","'","e","x","p","r","e","s","s","'",")">>
JsonLine == <<" "," ","a","p","p",".","u","s","e","(","e","x","p","r","e","s","s",".","j","s","o","n","(",")",")">>
JsonUrlencodedLine ==
    <<" "," ","a","p","p",".","u","s","e","(","e","x","p","r","e","s","s",".","j","s","o","n","(",")",","," ","e","x","p","r","e","s","s",".","u","r","l","e","n","c","o","d","e","d","(","{","}",")",")">>
CommentLine == <<"/","/"," ","e","x","p","r","e","s","s"," ","i","s"," ","c","o","n","f","i","g","u","r","e","d"," ","e","l","s","e","w","h","e","r","e">>
ListenLine == <<"a","p","p",".","l","i","s","t","e","n","(","3","0","0","0",")">>

\* A file of thirteen lines with the call on line 7, more than five lines away
\* from either end of the file.
LongFile ==
    <<RequireLine, <<"/","/"," ","2">>, <<"/","/"," ","3">>, <<"/","/"," ","4">>, <<"/","/"," ","5">>, <<"/","/"," ","6">>,
      JsonLine, <<"/","/"," ","8">>, <<"/","/"," ","9">>, <<"/","/"," ","1","0">>,
      <<"/","/"," ","1","1">>, <<"/","/"," ","1","2">>, <<"/","/"," ","1","3">>>>

\* The contents a file may have, as file_text.split('\n').
FileLines ==
    {LongFile, <<CommentLine, JsonLine>>,
     <<RequireLine, JsonUrlencodedLine>>, <<ListenLine>>}

\* The paths of the repository, in the order repo.get_contents lists them.
RepoPaths ==
    <<<<"R","E","A","D","M","E",".","m","d">>,
    <<"s","e","r","v","i","c","e","s","/","a","p","i","/","i","n","d","e","x",".","j","s">>,
    <<"s","r","c","/","a","p","p",".","j","s">>,
    <<"s","r","c","/","a","p","p",".","t","e","s","t",".","j","s">>,
    <<"s","r","c","/","l","a","t","e","s","t",".","j","s">>,
    <<"t","e","s","t","s","/","h","e","l","p","e","r",".","j","s">>>>

\* os.path.dirname(path)
dirname(path) ==
    LET head == Slice(path, 0, rfind(path, <<"/">>) + 1)
    IN  IF head # <<>> /\ \E k \in 1..Len(head) : head[k] # "/"
        THEN SubSeq(head, 1, CHOOSE n \in 1..Len(head) :
                                /\ head[n] # "/"
                                /\ \A j \in (n + 1)..Len(head) : head[j] = "/")
        ELSE head

\* get_search_scope_from_manifest(manifest_path)
get_search_scope_from_manifest(manifest_path) ==
    IF manifest_path = <<>> THEN <<>>
    ELSE LET manifest_dir == dirname(manifest_path)
         IN  IF manifest_dir = <<>> \/ manifest_dir = <<".">> THEN <<>>
             ELSE manifest_dir

\* alert.manifest_path: the manifest at the root, or that of a service of a
\* monorepo.
ManifestPaths ==
    {<<"p","a","c","k","a","g","e",".","j","s","o","n">>,
     <<"s","e","r","v","i","c","e","s","/","a","p","i","/","p","a","c","k","a","g","e",".","j","s","o","n">>}

\* The search_scope of the CodeAnalyzer that DependabotAnalyzer.__init__
\* constructs: the call passes no search_scope, so it is the default "".
OrchestratorSearchScope == <<>>

\* The directories a search may be scoped to ("" is the whole repository).
SearchScopes ==
    {OrchestratorSearchScope}
    \cup {get_search_scope_from_manifest(manifest_path) : manifest_path \in ManifestPaths}

\* self._is_code_file(filename)
_is_code_file(filename) == \E ext \in code_extensions : endswith(filename, ext)

\* self._is_test_file(file_path)
_is_test_file(file_path) ==
    LET file_lower == lower(file_path)
        path_parts == split(file_path, <<"/">>)
    IN  \/ \E pattern \in TEST_FILE_PATTERNS : Contains(file_lower, pattern)
        \/ \E k \in 1..(Len(path_parts) - 1) : lower(path_parts[k]) \in SKIP_DIRS

\* self._is_test_or_comment(line)
_is_test_or_comment(line) ==
    LET line_lower == strip(lower(line))
    IN  \/ startswith(line_lower, <<"/", "/">>)
        \/ startswith(line_lower, <<"#">>)
        \/ \E indicator \in test_indicators : Contains(line_lower, indicator)

\* content.name: the last component of the path
FileName(file_path) ==
    LET path_parts == split(file_path, <<"/">>) IN path_parts[Len(path_parts)]

\* A walk that appends the test files too.
_collect_files_unfiltered(files, start_path) ==
    SelectSeq(files,
              LAMBDA f :
                  /\ start_path = <<>> \/ startswith(f.path, start_path \o <<"/">>)
                  /\ _is_code_file(FileName(f.path)))

\* The files _collect_files_recursive appends when it walks the directory
\* start_path of files: a directory whose name is in SKIP_DIRS is not entered,
\* and a file is appended when it is a code file and not a test file.
_collect_files_recursive(files, start_path) ==
    SelectSeq(files,
              LAMBDA f :
                  /\ start_path = <<>> \/ startswith(f.path, start_path \o <<"/">>)
                  /\ _is_code_file(FileName(f.path))
                  /\ ~ _is_test_file(f.path))

\* repo.get_contents(start_path) raises when the repository has no such directory.
DirectoryExists(files, start_path) ==
    \/ start_path = <<>>
    \/ \E k \in 1..Len(files) : startswith(files[k].path, start_path \o <<"/">>)

\* self._get_code_files(max_files): the walk starts at search_scope and falls
\* back to the root when the scoped directory cannot be listed.
_get_code_files(files, search_scope, max_files) ==
    Slice(_collect_files_recursive(
              files, IF DirectoryExists(files, search_scope) THEN search_scope ELSE <<>>),
          0, max_files)

\* self._has_package_import(file_text, package_name): the four import regexes,
\* on source text that separates words by single spaces.
_has_package_import(lines, package_name) ==
    \E k \in 1..Len(lines) :
        \/ Contains(lines[k], <<"r","e","q","u","i","r","e","(","'">> \o package_name \o <<"'">>)
        \/ Contains(lines[k], <<"r","e","q","u","i","r","e","(","\"">> \o package_name \o <<"\"">>)
        \/ Contains(lines[k], <<"f","r","o","m"," ","'">> \o package_name \o <<"'">>)
        \/ Contains(lines[k], <<"f","r","o","m"," ","\"">> \o package_name \o <<"\"">>)
        \/ Contains(lines[k], <<"i","m","p","o","r","t"," ">> \o package_name)

CodeMatch(file_path, line_number, code_snippet, matched_pattern, context) ==
    [file_path |-> file_path, line_number |-> line_number,
     code_snippet |-> code_snippet, matched_pattern |-> matched_pattern,
     context |-> context]

Max(a, b) == IF a > b THEN a ELSE b

\* self._find_patterns_in_file(file_text, file_path, pattern): one CodeMatch
\* for every line and every regex of the pattern that matches the line.
_find_patterns_in_file(lines, file_path, pattern) ==
    LET regexes == pattern.patterns
        pairs == [n \in 1..(Len(lines) * Len(regexes)) |->
                     [i |-> ((n - 1) \div Len(regexes)) + 1,
                      regex_pattern |-> regexes[((n - 1) % Len(regexes)) + 1]]]
        found == SelectSeq(pairs, LAMBDA p : Contains(lines[p.i], p.regex_pattern))
    IN  [n \in 1..Len(found) |->
            CodeMatch(file_path, found[n].i, strip(lines[found[n].i]),
                      found[n].regex_pattern,
                      join(<<"\n">>, Slice(lines, Max(0, found[n].i - 5), found[n].i + 5)))]

\* The matches _generic_package_search finds in one file.
GenericMatches(lines, file_path, package_name) ==
    LET numbers == [i \in 1..Len(lines) |-> i]
        found == SelectSeq(numbers,
                           LAMBDA i : /\ Contains(lines[i], package_name)
                                      /\ ~ _is_test_or_comment(lines[i]))
    IN  [n \in 1..Len(found) |->
            CodeMatch(file_path, found[n], strip(lines[found[n]]),
                      <<"g","e","n","e","r","i","c","_","u","s","a","g","e">>,
                      join(<<"\n">>, Slice(lines, Max(0, found[n] - 3), found[n] + 3)))]

\* self._generic_package_search(package_name, max_files)
_generic_package_search(files, search_scope, package_name, max_files) ==
    LET searched == Slice(_get_code_files(files, search_scope, max_files),
                          0, generic_search_files)
    IN  Flatten([k \in 1..Len(searched) |->
                    GenericMatches(searched[k].lines, searched[k].path, package_name)])

\* The reasoning client is consulted whenever there is one and a description,
\* whether or not the vulnerability has a curated pattern.
ExtractionAlways(q) == q.llm /\ q.vulnerability_description

\* if not pattern and self.llm and vulnerability_description: the extraction
\* by the reasoning client is attempted.
ExtractionAttempted(q) ==
    /\ _get_vulnerability_pattern(q.package_name, q.vulnerability_id) = NoneObj
    /\ q.llm
    /\ q.vulnerability_description

\* The pattern find_vulnerable_usage searches with: the curated one, else the
\* one the reasoning service extracts when a client and a description are
\* given, else none.
SearchPattern(q) ==
    IF ExtractionAttempted(q) THEN q.extracted
    ELSE _get_vulnerability_pattern(q.package_name, q.vulnerability_id)

\* self.find_vulnerable_usage(package_name, vulnerability_id, ...)
find_vulnerable_usage(files, q) ==
    LET pattern == SearchPattern(q)
        scanned == _get_code_files(files, q.search_scope, default_max_files)
    IN  IF pattern = NoneObj
        THEN _generic_package_search(files, q.search_scope, q.package_name,
                                     default_max_files)
        ELSE Flatten([k \in 1..Len(scanned) |->
                         IF _has_package_import(scanned[k].lines, q.package_name)
                         THEN _find_patterns_in_file(scanned[k].lines,
                                                     scanned[k].path, pattern)
                         ELSE <<>>])

\* The matches analyze_exploitability keeps as production code.
production_matches(matches) ==
    SelectSeq(matches,
              LAMBDA m : LET path_lower == lower(m.file_path)
                         IN  \A skip \in test_path_markers :
                                ~ Contains(path_lower, skip))

\* self.analyze_exploitability(matches, vulnerability_pattern): the pair
\* (is_exploitable, reasoning); the reasoning is the text of the f-string,
\* the count put into it and the matches listed after it.
analyze_exploitability(matches, vulnerability_pattern) ==
    LET production == production_matches(matches)
    IN  IF matches = <<>>
        THEN [is_exploitable |-> FALSE,
              reasoning |-> "Package is imported but no vulnerable function usage found",
              count |-> 0, listed |-> <<>>]
        ELSE IF production = <<>>
        THEN [is_exploitable |-> FALSE,
              reasoning |-> "Found {} matches but all appear to be in test/mock code",
              count |-> Len(matches), listed |-> <<>>]
        ELSE IF vulnerability_pattern # NoneObj
        THEN [is_exploitable |-> TRUE,
              reasoning |-> "Found {} vulnerable function usage(s) in production code:",
              count |-> Len(production),
              listed |-> [n \in 1..Len(Slice(production, 0, 3)) |->
                             [file_path |-> production[n].file_path,
                              line_number |-> production[n].line_number,
                              code_snippet |-> production[n].code_snippet]]]
        ELSE [is_exploitable |-> TRUE,
              reasoning |-> "Found {} usage(s) of package in production code",
              count |-> Len(production), listed |-> <<>>]

\* The repositories searched: at most MaxFiles of the paths hold a file.
Trees ==
    {[n \in 1..Cardinality(present) |->
         LET k == CHOOSE k \in present :
                     Cardinality({j \in present : j < k}) = n - 1
         IN  [path |-> RepoPaths[k], lines |-> content[k]]] :
       <<present, content>> \in
         UNION {{<<p, c>> : c \in [p -> FileLines]} :
                   p \in {p \in SUBSET (1..Len(RepoPaths)) : Cardinality(p) <= MaxFiles}}}

\* The searches: a curated or an unknown vulnerability id, with or without a
\* reasoning client, whose extraction yields a pattern or nothing; for an alert whose manifest is at the root or in a
\* sub-directory, by the CodeAnalyzer of the orchestrator or by one that was
\* given the scope of the manifest.
Queries ==
    {q \in [package_name : {Express},
            vulnerability_id : {"prototype-pollution", "GHSA-0000-0000-0000"},
            vulnerability_description : {TRUE},
            llm : BOOLEAN,
            extracted : {NoneObj, ExtractedPattern},
            manifest_path : ManifestPaths,
            search_scope : SearchScopes] :
        /\ ~ q.llm => q.extracted = NoneObj
        /\ q.search_scope \in {OrchestratorSearchScope,
                               get_search_scope_from_manifest(q.manifest_path)}}

\* A CodeAnalyzer on a repository, before find_vulnerable_usage is called.
InitSearch ==
    /\ RunIdle
    /\ report = NoneObj
    /\ final_verdict = None
    /\ pc = "search"
    /\ reflection_results = <<>>
    /\ CorrectionIdle
    /\ RegistryIdle
    /\ increment_calls = <<>>
    /\ ParseIdle
    /\ tree \in Trees
    /\ query \in Queries
    /\ extractions = 0
    /\ exploitability = NoneObj

search_unchanged ==
    UNCHANGED <<alert, code_context, reports, false_positive_checks,
                code_analyzer_attempts, deep_analyzer_attempts,
                false_positive_checker_attempts, execution_history,
                accumulated_context, current_phase, final_report, final_fp_check,
                report, refinement_iteration, attempt, last_error, previous_attempts, exception,
                workflow_status, final_verdict, reflection_results,
                correction_vars, registry_vars, increment_calls, parse_vars,
                tree, query>>

\* matches = await analyzer.find_vulnerable_usage(...)
FindVulnerableUsage ==
    /\ pc = "search"
    /\ code_matches' = find_vulnerable_usage(tree, query)
    /\ extractions' = IF ExtractionAttempted(query) THEN extractions + 1 ELSE extractions
    /\ pc' = "searched"
    /\ UNCHANGED exploitability
    /\ search_unchanged

\* analyzer.analyze_exploitability(matches, pattern), with the pattern of the search
AnalyzeExploitability ==
    /\ pc = "searched"
    /\ exploitability' = analyze_exploitability(code_matches, SearchPattern(query))
    /\ pc' = "analyzed"
    /\ UNCHANGED <<code_matches, extractions>>
    /\ search_unchanged

NextSearch == FindVulnerableUsage \/ AnalyzeExploitability

SpecSearch == InitSearch /\ [][NextSearch]_vars

\* ------------------------------------------------------------ json
\* A JSON value: a string, a literal (true, false, null), a number, an array
\* or an object; an object is the sequence of its members in insertion order.
JsonString(chars) == [t |-> "str", chars |-> chars]
JsonLiteral(name) == [t |-> "lit", name |-> name]
JsonNumber(n) == [t |-> "num", n |-> n]
JsonArray(items) == [t |-> "arr", items |-> items]
JsonObject(members) == [t |-> "obj", members |-> members]
Member(key, value) == [key |-> key, value |-> value]

Digits ==
    <<"0", "1", "2", "3", "4", "5", "6", "7", "8", "9">>

\* str(n) for n >= 0
RECURSIVE DigitsOf(_)
DigitsOf(n) ==
    IF n < 10 THEN <<Digits[n + 1]>> ELSE DigitsOf(n \div 10) \o <<Digits[(n % 10) + 1]>>

\* The text json.dumps writes for a string: quotes around the characters,
\* with quote, backslash, newline, tab and carriage return escaped.
RECURSIVE EscapeChars(_)
EscapeChars(chars) ==
    IF chars = <<>> THEN <<>>
    ELSE (CASE Head(chars) = "\"" -> <<"\\", "\"">>
            [] Head(chars) = "\\" -> <<"\\", "\\">>
            [] Head(chars) = "\n" -> <<"\\", "n">>
            [] Head(chars) = "\t" -> <<"\\", "t">>
            [] Head(chars) = "\r" -> <<"\\", "r">>
            [] OTHER -> <<Head(chars)>>)
         \o EscapeChars(Tail(chars))

Quoted(chars) == <<"\"">> \o EscapeChars(chars) \o <<"\"">>

\* indent * level spaces, for json.dumps(..., indent=2)
RECURSIVE Indentation(_)
Indentation(level) ==
    IF level = 0 THEN <<>> ELSE <<" ", " ">> \o Indentation(level - 1)

\* json.dumps(value) when pretty is false, json.dumps(value, indent=2) when
\* it is true; level is the nesting depth of the value.
RECURSIVE json_dumps(_, _, _)
json_dumps(value, pretty, level) ==
    LET open == IF pretty THEN <<"\n">> \o Indentation(level + 1) ELSE <<>>
        separator == IF pretty THEN <<",", "\n">> \o Indentation(level + 1)
                     ELSE <<",", " ">>
        close == IF pretty THEN <<"\n">> \o Indentation(level) ELSE <<>>
    IN  CASE value.t = "str" -> Quoted(value.chars)
          [] value.t = "lit" -> value.name
          [] value.t = "num" -> DigitsOf(value.n)
          [] value.t = "arr" ->
                IF value.items = <<>> THEN <<"[", "]">>
                ELSE <<"[">> \o open
                     \o join(separator,
                             [k \in 1..Len(value.items) |->
                                 json_dumps(value.items[k], pretty, level + 1)])
                     \o close \o <<"]">>
          [] value.t = "obj" ->
                IF value.members = <<>> THEN <<"{", "}">>
                ELSE <<"{">> \o open
                     \o join(separator,
                             [k \in 1..Len(value.members) |->
                                 Quoted(value.members[k].key) \o <<":", " ">>
                                 \o json_dumps(value.members[k].value, pretty, level + 1)])
                     \o close \o <<"}">>

\* What a step of the JSON decoder yields: a value and the position after
\* it, or a JSONDecodeError.
Decoded(value, next) == [ok |-> TRUE, value |-> value, next |-> next]
JSONDecodeError == [ok |-> FALSE, value |-> NoneObj, next |-> 0]

\* The position of the first character at or after i that is not whitespace.
RECURSIVE SkipWhitespace(_, _)
SkipWhitespace(s, i) ==
    IF i <= Len(s) /\ s[i] \in Whitespace THEN SkipWhitespace(s, i + 1) ELSE i

\* The string whose characters start at i (after the opening quote): it ends
\* at the next quote that is not escaped; a control character inside it and
\* an unknown escape are errors.  The escapes \b, \f and \uXXXX are not
\* decoded: no response of the model contains them.
RECURSIVE ScanString(_, _, _)
ScanString(s, i, acc) ==
    IF i > Len(s) THEN JSONDecodeError
    ELSE IF s[i] = "\"" THEN Decoded(JsonString(acc), i + 1)
    ELSE IF s[i] = "\\"
    THEN IF i + 1 > Len(s) THEN JSONDecodeError
         ELSE IF s[i + 1] \in {"\"", "\\", "/"}
              THEN ScanString(s, i + 2, Append(acc, s[i + 1]))
         ELSE IF s[i + 1] = "n" THEN ScanString(s, i + 2, Append(acc, "\n"))
         ELSE IF s[i + 1] = "t" THEN ScanString(s, i + 2, Append(acc, "\t"))
         ELSE IF s[i + 1] = "r" THEN ScanString(s, i + 2, Append(acc, "\r"))
         ELSE JSONDecodeError
    ELSE IF s[i] \in {"\n", "\t", "\r"} THEN JSONDecodeError
    ELSE ScanString(s, i + 1, Append(acc, s[i]))

\* The digits of a number that starts at i; n is the value read so far.
RECURSIVE ScanDigits(_, _, _)
ScanDigits(s, i, n) ==
    IF i <= Len(s) /\ \E d \in 1..10 : Digits[d] = s[i]
    THEN ScanDigits(s, i + 1, 10 * n + (CHOOSE d \in 1..10 : Digits[d] = s[i]) - 1)
    ELSE Decoded(JsonNumber(n), i)

\* The members with the value of key set: a repeated key keeps its place
\* and takes the last value, as a Python dict does.
PutMember(members, key, value) ==
    IF \E k \in 1..Len(members) : members[k].key = key
    THEN [k \in 1..Len(members) |->
             IF members[k].key = key THEN Member(key, value) ELSE members[k]]
    ELSE Append(members, Member(key, value))

RECURSIVE ParseValue(_, _)
RECURSIVE ParseMembers(_, _, _)
RECURSIVE ParseItems(_, _, _)

\* The members of an object from position i on, after "{" or ",".
ParseMembers(s, i, members) ==
    LET j == SkipWhitespace(s, i)
        key == ScanString(s, j + 1, <<>>)
        colon == SkipWhitespace(s, key.next)
        value == ParseValue(s, colon + 1)
        after == SkipWhitespace(s, value.next)
    IN  IF j > Len(s) THEN JSONDecodeError
        ELSE IF s[j] = "}" /\ members = <<>> THEN Decoded(JsonObject(members), j + 1)
        ELSE IF s[j] # "\"" THEN JSONDecodeError
        ELSE IF ~ key.ok THEN JSONDecodeError
        ELSE IF colon > Len(s) \/ s[colon] # ":" THEN JSONDecodeError
        ELSE IF ~ value.ok THEN JSONDecodeError
        ELSE IF after > Len(s) THEN JSONDecodeError
        ELSE IF s[after] = ","
             THEN LET rest == SkipWhitespace(s, after + 1)
                  IN  IF rest <= Len(s) /\ s[rest] = "}" THEN JSONDecodeError
                      ELSE ParseMembers(s, after + 1,
                                        PutMember(members, key.value.chars, value.value))
        ELSE IF s[after] = "}"
             THEN Decoded(JsonObject(PutMember(members, key.value.chars, value.value)),
                          after + 1)
        ELSE JSONDecodeError

\* The items of an array from position i on, after "[" or ",".
ParseItems(s, i, items) ==
    LET j == SkipWhitespace(s, i)
        value == ParseValue(s, j)
        after == SkipWhitespace(s, value.next)
    IN  IF j > Len(s) THEN JSONDecodeError
        ELSE IF s[j] = "]" /\ items = <<>> THEN Decoded(JsonArray(items), j + 1)
        ELSE IF ~ value.ok THEN JSONDecodeError
        ELSE IF after > Len(s) THEN JSONDecodeError
        ELSE IF s[after] = "," THEN ParseItems(s, after + 1, Append(items, value.value))
        ELSE IF s[after] = "]"
             THEN Decoded(JsonArray(Append(items, value.value)), after + 1)
        ELSE JSONDecodeError

\* The JSON value that starts at position i, after optional whitespace.
ParseValue(s, i) ==
    LET j == SkipWhitespace(s, i)
        literal(name) == SubSeq(s, j, j + Len(name) - 1) = name
    IN  IF j > Len(s) THEN JSONDecodeError
        ELSE IF s[j] = "{" THEN ParseMembers(s, j + 1, <<>>)
        ELSE IF s[j] = "[" THEN ParseItems(s, j + 1, <<>>)
        ELSE IF s[j] = "\"" THEN ScanString(s, j + 1, <<>>)
        ELSE IF j + 3 <= Len(s) /\ literal(<<"t","r","u","e">>)
             THEN Decoded(JsonLiteral(<<"t","r","u","e">>), j + 4)
        ELSE IF j + 3 <= Len(s) /\ literal(<<"n","u","l","l">>)
             THEN Decoded(JsonLiteral(<<"n","u","l","l">>), j + 4)
        ELSE IF j + 4 <= Len(s) /\ literal(<<"f","a","l","s","e">>)
             THEN Decoded(JsonLiteral(<<"f","a","l","s","e">>), j + 5)
        ELSE IF s[j] = "0" THEN Decoded(JsonNumber(0), j + 1)
        ELSE IF \E d \in 2..10 : Digits[d] = s[j] THEN ScanDigits(s, j, 0)
        ELSE JSONDecodeError

\* json.loads(s): the one JSON value s holds, with nothing but whitespace
\* after it; anything else is a JSONDecodeError.
json_loads(s) ==
    LET decoded == ParseValue(s, 1)
    IN  IF decoded.ok /\ SkipWhitespace(s, decoded.next) > Len(s)
        THEN decoded
        ELSE JSONDecodeError

\* ------------------------------------------------------------ ask_structured
\* The backtick, which a TLA+ string cannot hold, is written as a character
\* of its own name.
Backtick == "backtick"
Fence == <<Backtick, Backtick, Backtick>>
FenceJson == Fence \o <<"j", "s", "o", "n">>
\* The length of the response excerpt the ValueError carries.
excerpt_length == 1000

\* s[a:] for 0 <= a
SliceFrom(s, a) == SubSeq(s, a + 1, Len(s))

\* s.count(c) for a character c
count(s, c) == Cardinality({j \in 1..Len(s) : s[j] = c})

\* s * n for n >= 0
RECURSIVE Repeat(_, _)
Repeat(s, n) == IF n <= 0 THEN <<>> ELSE s \o Repeat(s, n - 1)

\* Stage 1: the text json.loads is given after the fence markers are removed.
Stage1Content(content) ==
    LET stripped == strip(content)
        unfenced == IF startswith(stripped, FenceJson) THEN SliceFrom(stripped, 7)
                    ELSE IF startswith(stripped, Fence) THEN SliceFrom(stripped, 3)
                    ELSE stripped
        cut == IF Contains(unfenced, Fence) THEN split(unfenced, Fence)[1] ELSE unfenced
    IN  strip(cut)

Stage1(content) == json_loads(Stage1Content(content))

\* A stage 2 that never parses.
Stage2Skipped(content) == JSONDecodeError

\* Stage 2: json.loads of the text from the first "{" to the last "}"; a
\* response without the two characters is not parsed at this stage.
Stage2(content) ==
    LET start == find(content, <<"{">>)
        end == rfind(content, <<"}">>)
    IN  IF start # -1 /\ end # -1
        THEN json_loads(Slice(content, start, end + 1))
        ELSE JSONDecodeError

\* The number of quotes of the line that no backslash precedes.
quote_count(line) ==
    Cardinality({j \in 1..Len(line) :
                    line[j] = "\"" /\ (j = 1 \/ line[j - 1] # "\\")})

\* The repair of the lines: a line with an odd number of unescaped quotes
\* gets a closing quote, unless it is not the last one and ends with a comma.
fixed_lines(lines) ==
    [i \in 1..Len(lines) |->
        IF /\ quote_count(lines[i]) % 2 = 1
           /\ i = Len(lines) \/ ~ endswith(rstrip(lines[i]), <<",">>)
        THEN rstrip(lines[i]) \o <<"\"">>
        ELSE lines[i]]

\* The text the repair builds from json_str: the repaired lines, and one
\* closing brace on a line of its own for each brace that is left open.
fixed_json(json_str) ==
    LET joined == join(<<"\n">>, fixed_lines(split(json_str, <<"\n">>)))
        open_braces == count(joined, "{") - count(joined, "}")
    IN  joined \o Repeat(<<"\n", "}">>, open_braces)

\* Stage 3: the fences are removed again, and the text from the first "{" to
\* the last "}" is repaired and given to json.loads; a text without the two
\* characters is not repaired.
Stage3(content) ==
    LET unfenced ==
            IF Contains(content, FenceJson)
            THEN split(split(content, FenceJson)[2], Fence)[1]
            ELSE IF Contains(content, Fence)
            THEN split(split(content, Fence)[2], Fence)[1]
            ELSE content
        start == find(unfenced, <<"{">>)
        end == rfind(unfenced, <<"}">>)
    IN  IF start # -1 /\ end # -1
        THEN json_loads(fixed_json(Slice(unfenced, start, end + 1)))
        ELSE JSONDecodeError

\* An empty dict returned in place of the error.
ReturnedEmptyDict(content) ==
    [returned |-> TRUE, stage |-> 3, value |-> JsonObject(<<>>)]

\* What ask_structured returns, and the ValueError it raises.
Returned(stage, value) == [returned |-> TRUE, stage |-> stage, value |-> value]
ValueError(content) ==
    [returned |-> FALSE, error |-> "LLM did not return valid JSON",
     excerpt |-> Slice(content, 0, excerpt_length)]


\* The values of the members of an answer.
JsonValues ==
    {JsonString(chars) :
        chars \in {<<"o","k">>, <<>>, <<Backtick,Backtick,Backtick>>, <<"a","}","b">>, <<"{">>,
            <<"s","a","y"," ","\"","h","i","\"">>, <<"a","\\">>, <<"x","\n","y">>}}
    \cup {JsonLiteral(<<"t","r","u","e">>), JsonLiteral(<<"n","u","l","l">>), JsonNumber(42),
          JsonObject(<<Member(<<"k">>, JsonString(<<"o", "k">>))>>),
          JsonArray(<<JsonString(<<"o", "k">>)>>)}

\* The dicts an answer may be: no member, the member k, the members k and n,
\* or an object, a string and another string as the members k, v and n.
Dicts ==
    {JsonObject(<<>>)}
    \cup {JsonObject(<<Member(<<"k">>, v)>>) : v \in JsonValues}
    \cup {JsonObject(<<Member(<<"k">>, v), Member(<<"n">>, w)>>) :
             v \in JsonValues, w \in JsonValues}
    \cup {JsonObject(<<Member(<<"k">>, JsonObject(<<Member(<<"k">>, JsonString(<<"o", "k">>))>>)),
                       Member(<<"v">>, JsonString(<<"o", "k">>)),
                       Member(<<"n">>, JsonString(<<"o", "k">>))>>)}

\* The raw text in a Markdown fence ("json": ```json, "plain": ```), or as it
\* is ("none"), with or without stray whitespace around it.
Wrapped(raw, fence, stray) ==
    LET body == IF fence = "json" THEN FenceJson \o <<"\n">> \o raw \o <<"\n">> \o Fence
                ELSE IF fence = "plain" THEN Fence \o <<"\n">> \o raw \o <<"\n">> \o Fence
                ELSE raw
    IN  IF stray THEN <<" ", " ", "\n">> \o body \o <<"\n", " ", " ">> ELSE body

\* The dicts whose last member is a string.
DictsEndingInString ==
    {d \in Dicts : d.members # <<>> /\ d.members[Len(d.members)].value.t = "str"}

\* The serialisation of such a dict, cut off before the quote that closes
\* its last string: one unterminated trailing string, one brace missing.
Truncated(d, pretty) ==
    LET raw == json_dumps(d, pretty, 0)
    IN  SubSeq(raw, 1, Len(raw) - (IF pretty THEN 3 ELSE 2))

\* A response longer than the excerpt of the ValueError.
LongResponse == [i \in 1..(excerpt_length + 1) |-> "x"]

\* Responses that are no serialisation of a dict: prose, prose around an
\* object, JSON values that are no object, cut-off and malformed objects.
OtherResponses ==
    {LongResponse,
     <<"I"," ","c","a","n","n","o","t"," ","a","n","s","w","e","r"," ","t","h","a","t",".">>,
     <<>>,
     <<"H","e","r","e"," ","i","s"," ","t","h","e"," ","J","S","O","N",":"," ","{","\"","k","\"",":"," ","\"","o","k","\"","}"," ","H","o","p","e"," ","i","t"," ","h","e","l","p","s",".">>,
     <<"[","1",","," ","2","]">>,
     <<"\"","t","e","x","t","\"">>,
     <<"4","2">>,
     <<"t","r","u","e">>,
     <<"n","u","l","l">>,
     <<"{","\"","k","\"",":"," ","{","\"","n","\"",":"," ","1","}",","," ","\"","n","\"",":"," ","\"","u","n","f","i","n","i","s","h">>,
     <<"{","\"","k","\"",":"," ","{","\"","n","\"",":"," ","1","}",","," ","\"","v","\"",":"," ","\"","d","o","n","e","\"",","," ","\"","n","\"",":"," ","\"","u","n","f","i","n","i","s","h">>,
     <<"}"," ","{">>,
     <<"{","\"","k","\"",":"," ","\"","o","k","\"","}","{","\"","n","\"",":"," ","1","}">>,
     <<"{","'","k","'",":"," ","'","o","k","'","}">>,
     <<"{","\"","k","\"",":"," ","\"","l","i","n","e"," ","o","n","e","\n","l","i","n","e"," ","t","w","o","\"","}">>,
     <<"{","\"","k","\"",":"," ","\"","o","k","\"",",","}">>,
     <<Backtick,Backtick,Backtick,"j","s","o","n","\n","{","\"","k","\"",":"," ","\"","o","k","\"","}","\n",Backtick,Backtick,Backtick,"\n","T","h","e"," ","p","a","c","k","a","g","e"," ","i","s"," ","u","s","e","d"," ","i","n"," ","{","p","r","o","d","u","c","t","i","o","n","}",".">>}

\* What the reasoning service answered: the text, and what the text is (the
\* serialisation of a dict, a truncated one, or something else).
Answer(content, form, value) == [content |-> content, form |-> form, value |-> value]

Answers ==
    {Answer(Wrapped(json_dumps(d, pretty, 0), fence, stray), "json", d) :
        d \in Dicts, pretty \in BOOLEAN, fence \in {"none", "json", "plain"},
        stray \in BOOLEAN}
    \cup {Answer(Wrapped(Truncated(d, pretty), "none", FALSE), "truncated", d) :
             d \in DictsEndingInString, pretty \in BOOLEAN}
    \cup {Answer(FenceJson \o <<"\n">> \o Truncated(d, pretty), "truncated", d) :
             d \in DictsEndingInString, pretty \in BOOLEAN}
    \cup {Answer(content, "other", NoneObj) : content \in OtherResponses}

\* ask_structured has received the response of the reasoning service.
InitParse ==
    /\ RunIdle
    /\ report = NoneObj
    /\ final_verdict = None
    /\ pc = "parse_stage1"
    /\ reflection_results = <<>>
    /\ CorrectionIdle
    /\ RegistryIdle
    /\ increment_calls = <<>>
    /\ SearchIdle
    /\ \E answer \in Answers :
          /\ response = answer.content
          /\ sent = [form |-> answer.form, value |-> answer.value]
    /\ parsed = NoneObj

parse_unchanged ==
    UNCHANGED <<state_vars, report, refinement_iteration, attempt, last_error, previous_attempts,
                exception, workflow_status, final_verdict, reflection_results,
                correction_vars, registry_vars, increment_calls, search_vars,
                response, sent>>

\* Stage 1 (the try block): return json.loads of the unfenced text, or go on.
ParseStage1 ==
    /\ pc = "parse_stage1"
    /\ IF Stage1(response).ok
       THEN parsed' = Returned(1, Stage1(response).value) /\ pc' = "parse_returned"
       ELSE parsed' = parsed /\ pc' = "parse_stage2"
    /\ parse_unchanged

\* Stage 2 (first try of the handler): return the object between the braces, or go on.
ParseStage2 ==
    /\ pc = "parse_stage2"
    /\ IF Stage2(response).ok
       THEN parsed' = Returned(2, Stage2(response).value) /\ pc' = "parse_returned"
       ELSE parsed' = parsed /\ pc' = "parse_stage3"
    /\ parse_unchanged

\* Stage 3 (second try of the handler): return the repaired object, or raise.
ParseStage3 ==
    /\ pc = "parse_stage3"
    /\ IF Stage3(response).ok
       THEN parsed' = Returned(3, Stage3(response).value) /\ pc' = "parse_returned"
       ELSE parsed' = ValueError(response) /\ pc' = "parse_raised"
    /\ parse_unchanged

NextParse == ParseStage1 \/ ParseStage2 \/ ParseStage3

SpecParse == InitParse /\ [][NextParse]_vars

\* ------------------------------------------------------------ properties
\* The run of _process_alert_with_state is over: it returned the state, or an
\* exception left it, or the backend caller has already dealt with either.
RunEnded == pc \in {"returned", "raised", "finished"}

\* The last record of the execution log.
LastExecution(history) == history[Len(history)]

\* C2: the attempt counter of the reasoner (deep_analyzer_attempts) never
\* decreases and never exceeds max_retries_per_agent, and analyze is never
\* invoked (the run never enters analyze) once the counter has reached the
\* maximum.
C2_AttemptBudget ==
    /\ [](deep_analyzer_attempts <= max_retries_per_agent)
    /\ [][/\ deep_analyzer_attempts' >= deep_analyzer_attempts
          /\ (pc # "analyzing" /\ pc' = "analyzing")
                => deep_analyzer_attempts < max_retries_per_agent]_vars

\* C2 witness: the budget is used up by failed attempts and the run has given up
\* instead of calling analyze again.
C2_Witness ==
    /\ pc = "returned"
    /\ deep_analyzer_attempts = max_retries_per_agent
    /\ Len(execution_history) = 2 + max_retries_per_agent

\* C4 (as claimed): when the run is over, the false-positive reviewer has been
\* invoked if and only if a final report exists and it is exploitable.
C4_FpCheckIffExploitable ==
    RunEnded =>
        ((false_positive_checker_attempts > 0)
            <=> (final_report # NoneObj /\ final_report.is_exploitable))

\* C5: at every state final_report is set if and only if the reports list is
\* non-empty, that is, at least one analyze call of the run has returned.
C5_FinalReportIffReports ==
    (final_report # NoneObj) <=> (Len(reports) > 0)

\* C5 witness: analyze has returned a report built from the service's answer and
\* it is the final report.
C5_Witness ==
    /\ Len(reports) = 1
    /\ final_report = reports[1]
    /\ ~IsDefaultReport(final_report)

C7_EndsInTerminalPhase ==
    RunEnded => current_phase \in {"completed", "failed"}

\* C8 (as claimed): when the last ask_structured attempt of an analyze call fails
\* (the output cannot be parsed or the call fails), the orchestrator sees a
\* failure: a success=False entry is logged and no report is added or made final.
C8_ParseFailureIsFailure ==
    [][\A err \in LLMErrors :
          AskStructuredFailsDefault(err) =>
              /\ reports' = reports
              /\ final_report' = final_report
              /\ Len(execution_history') = Len(execution_history) + 1
              /\ ~LastExecution(execution_history').success]_vars

\* C9 (as claimed): when every reasoning call of a finished run failed (no report
\* was built from an answer of the service), the stored verdict is needs_review.
C9_NoSignalNeedsReview ==
    (pc = "finished" /\ \A i \in DOMAIN reports : IsDefaultReport(reports[i]))
        => final_verdict = "needs_review"

\* A step in which a component fails: the code search, the context fetch, an
\* ask_structured attempt of the reasoner, or analyze itself.
FailureStep ==
    \/ \E err \in SearchErrors : CodeAnalysisFails(err)
    \/ \E err \in SearchErrors : GetCodeContextFails(err)
    \/ \E err \in SearchErrors : GetCodeContextFallback(err)
    \/ \E err \in LLMErrors : AskStructuredFailsRetry(err)
    \/ \E err \in LLMErrors : AskStructuredFailsDefault(err)
    \/ \E err \in AnalyzeErrors : DeepAnalysisException(err)

\* C10 (as claimed): every failing step appends to the execution log an entry
\* with success=False that carries the error text, in the same step, hence before
\* the retry or the fallback that follows it.
C10_FailureLoggedBeforeRetry ==
    [][FailureStep =>
          /\ Len(execution_history') = Len(execution_history) + 1
          /\ ~LastExecution(execution_history').success
          /\ LastExecution(execution_history').error_message # None]_vars

\* ------------------------------------------------------------ C11 .. C20
\* The records of one component in the execution log, in order.
ExecutionsOf(agent_name) ==
    SelectSeq(execution_history, LAMBDA e : e.agent_name = agent_name)

\* The log holds a success=False record of the component.
FailureLogged(agent_name) ==
    \E i \in 1..Len(execution_history) :
        /\ execution_history[i].agent_name = agent_name
        /\ ~execution_history[i].success

\* C11 (as claimed): a failure of the reflection step never propagates out of
\* the run: no run that reached the reflection step (the reasoner returned a
\* report in phase deep_analysis) is left by an exception.
C11_ReflectionFailureStaysInside ==
    ~(/\ pc = "raised"
      /\ current_phase = "deep_analysis"
      /\ report # NoneObj
      /\ exception = "AttributeError")

\* C13: a failure of the code search or of the context fetch never ends the
\* run: after a logged code-search failure the match list is empty, after a
\* logged context-fetch failure the context is the placeholder string, in both
\* cases the run is not in phase failed without the reasoner having been
\* invoked, and no run ends before the reasoner was invoked.
C13_SearchAndContextFailuresContinue ==
    /\ FailureLogged("code_analyzer") => code_matches = <<>>
    /\ FailureLogged("alert_fetcher") => code_context = "context unavailable"
    /\ pc \notin {"code_analysis", "code_context"} => code_context # None
    /\ RunEnded => deep_analyzer_attempts >= 1
    /\ current_phase = "failed" => deep_analyzer_attempts >= 1

\* C13 witness: the code search and the context fetch both failed and the
\* reasoner is being invoked.
C13_Witness ==
    /\ FailureLogged("code_analyzer")
    /\ FailureLogged("alert_fetcher")
    /\ pc = "analyzing"
    /\ code_matches = <<>>
    /\ code_context = "context unavailable"

\* C14: when the reasoner (the analyze call) fails on its first k attempts, k
\* below the budget, and succeeds on attempt k+1, the log holds exactly k
\* reasoner records with success=False followed by one with success=True, each
\* carrying its attempt number, and final_report is the report of attempt k+1
\* (the one analyze just returned, the last of the reports history).
C14_FailuresThenSuccess ==
    report # NoneObj =>
        LET da == ExecutionsOf("deep_analyzer")
            k == deep_analyzer_attempts - 1
        IN  /\ k < max_retries_per_agent
            /\ Len(da) = k + 1
            /\ \A i \in 1..k : ~da[i].success /\ da[i].error_message # None
            /\ da[k + 1].success
            /\ \A i \in 1..(k + 1) : da[i].metadata.attempt = i
            /\ da[k + 1].metadata.confidence = report.confidence
            /\ final_report = report
            /\ reports = <<report>>

\* C14 witness: the reasoner failed twice and succeeded on the third attempt,
\* the last of the budget.
C14_Witness ==
    /\ report # NoneObj
    /\ deep_analyzer_attempts = max_retries_per_agent
    /\ Len(ExecutionsOf("deep_analyzer")) = max_retries_per_agent
    /\ ~ExecutionsOf("deep_analyzer")[1].success
    /\ ExecutionsOf("deep_analyzer")[max_retries_per_agent].success

\* Every reasoner call of the run returned a report and none of them is the
\* default report of a failed analysis.
EveryReasonerCallSucceeded ==
    /\ ExecutionsOf("deep_analyzer") # <<>>
    /\ \A i \in 1..Len(ExecutionsOf("deep_analyzer")) :
          ExecutionsOf("deep_analyzer")[i].success
    /\ \A i \in 1..Len(reports) : ~IsDefaultReport(reports[i])

\* C15 (as claimed): with max_refinement_iterations = 3, every reasoner call
\* succeeding and the reflection answering retry_analysis twice and then
\* accept_result, the run is over only after exactly 3 reasoner calls (one
\* report each) and it ends in phase completed.  The reflection is never
\* consulted, so its answers are no input of the run.
C15_ThreeReasonerCallsThenCompleted ==
    (RunEnded /\ EveryReasonerCallSucceeded) =>
        /\ deep_analyzer_attempts = 3
        /\ Len(reports) = 3
        /\ current_phase = "completed"
        /\ exception = None

\* C12 (as claimed): with an exploitable final report and a false-positive
\* check that fails, once the run is over the failure is logged with
\* success=False, final_report is still the reasoner's uncorrected report,
\* final_fp_check is unset and the phase is completed.  The check is never
\* invoked, so whether it would fail is no input of the run.
C12_FpCheckFailureIsNotFatal ==
    (RunEnded /\ final_report # NoneObj /\ final_report.is_exploitable) =>
        /\ FailureLogged("false_positive_checker")
        /\ final_report = reports[Len(reports)]
        /\ final_fp_check = NoneObj
        /\ current_phase = "completed"

\* The reviewer provided a corrected priority.
PriorityProvided(chk) ==
    chk.corrected_priority # <<>> /\ chk.corrected_priority[1] \in Priorities

\* C16: validate_and_correct on an exploitable report and a check that flags a
\* false positive returns a report whose priority is the reviewer's corrected
\* priority and whose is_exploitable is the reviewer's corrected exploitability
\* wherever the reviewer provided them (the original values otherwise), and
\* whose reasoning is the original reasoning, then the FALSE POSITIVE CHECK
\* marker, then the reviewer's reasoning.
C16_CorrectedFinalReport ==
    (corrected # 0 /\ report.is_exploitable /\ check.is_false_positive) =>
        LET c == heap[corrected]
            n == Len(report.reasoning)
        IN  /\ c.priority = IF PriorityProvided(check)
                             THEN check.corrected_priority[1] ELSE report.priority
            /\ c.is_exploitable = IF check.corrected_exploitability # <<>>
                                   THEN check.corrected_exploitability[1]
                                   ELSE report.is_exploitable
            /\ Len(c.reasoning) = n + 2
            /\ SubSeq(c.reasoning, 1, n) = report.reasoning
            /\ c.reasoning[n + 1] = "FALSE POSITIVE CHECK"
            /\ c.reasoning[n + 2] = check.reasoning

\* C16 witness: a critical exploitable report was corrected to low and not
\* exploitable.
C16_Witness ==
    /\ corrected # 0
    /\ report.is_exploitable
    /\ report.priority = "critical"
    /\ check.is_false_positive
    /\ check.corrected_priority = <<"low">>
    /\ check.corrected_exploitability = <<FALSE>>
    /\ heap[corrected].priority = "low"
    /\ ~heap[corrected].is_exploitable

\* C17: the correction never changes the reasoner's report in place: the
\* object the reports history holds keeps the fields analyze returned, the
\* corrected report is another object, and when the check flags no false
\* positive the report itself is returned and nothing is changed.
C17_ReportNotMutated ==
    pc \in {"validate_and_correct", "corrected"} =>
        /\ heap[1] = report
        /\ (corrected # 0 /\ check.is_false_positive) => corrected # 1
        /\ (corrected # 0 /\ ~check.is_false_positive) =>
              (corrected = 1 /\ heap = <<report>>)

\* C17 witness: a corrected copy differs from the report, which is unchanged.
C17_Witness ==
    /\ pc = "corrected"
    /\ check.is_false_positive
    /\ corrected = 2
    /\ heap[1] = report
    /\ heap[2].priority # report.priority
    /\ heap[2].reasoning # report.reasoning

C20_RegistryTracksTasks ==
    /\ [](\A id \in 1..(MaxWorkflows + 1) :
            is_running(id) <=> (id <= Len(tasks) /\ tasks[id].task # "done"))
    /\ [][\A id \in running_analyses \ running_analyses' :
            /\ id <= Len(tasks)
            /\ tasks[id].task # "done"
            /\ tasks'[id].task = "done"]_vars

\* C20 witness: of three started runs one has finished and left the registry
\* while the other two, one of them not yet scheduled, are still in it.
C20_Witness ==
    /\ Len(tasks) = 3
    /\ tasks[1].task = "done"
    /\ tasks[2].task = "running"
    /\ tasks[3].task = "pending"
    /\ running_analyses = {2, 3}

\* s is a prefix of t.
IsPrefix(s, t) == Len(s) <= Len(t) /\ SubSeq(t, 1, Len(s)) = s

\* C26: no AnalysisState operation removes history: in every step of any
\* sequence of add_execution, add_context and increment_attempts calls the
\* execution log before is a prefix of the log after, the accumulated context
\* before is a prefix of the accumulated context after, and no attempt counter
\* decreases.
C26_NoHistoryRemoved ==
    [][/\ IsPrefix(execution_history, execution_history')
       /\ IsPrefix(accumulated_context, accumulated_context')
       /\ code_analyzer_attempts' >= code_analyzer_attempts
       /\ deep_analyzer_attempts' >= deep_analyzer_attempts
       /\ false_positive_checker_attempts' >= false_positive_checker_attempts]_vars

\* C26 witness: two records logged, two notes accumulated around the
\* separator, and a counter raised.
C26_Witness ==
    /\ pc = "state"
    /\ Len(execution_history) = 2
    /\ accumulated_context =
          <<"Previous attempt failed", "---", "Reflection iteration">>
    /\ deep_analyzer_attempts >= 1

\* C27 (as claimed): for each of the four component names the orchestrator
\* passes, the counter should_retry(component) reads is the number of
\* increment_attempts(component) calls made (each call raises it by exactly
\* one), and should_retry(component) is true exactly when that number is
\* below max_retries_per_agent.
C27_EveryComponentHasACounter ==
    pc = "state" =>
        \A agent_name \in ComponentNames :
            /\ attempt_map(agent_name) = increment_calls[agent_name]
            /\ should_retry(agent_name)
                  <=> increment_calls[agent_name] < max_retries_per_agent

\* The last reflection accepted the result as acceptable.
LastReflectionAccepted ==
    /\ reflection_results # <<>>
    /\ ~reflection_results[Len(reflection_results)].needs_refinement
    /\ reflection_results[Len(reflection_results)].confidence_assessment = "acceptable"

C29_FailedRunNeedsReview ==
    (pc = "finished" /\ current_phase = "failed") =>
        final_verdict = "needs_review"

\* C30 (as claimed): with a reflection that commands retry_analysis on each of
\* its invocations and a reasoner whose calls all succeed, the run is over only
\* when the reasoner's budget is used up: each retry appended the reflection
\* context block to the accumulated context and made another reasoner
\* attempt, and the report of the last attempt stands.  The reflection is
\* never consulted, so its commands are no input of the run.
C30_RetryCommandLoopsBack ==
    (RunEnded /\ EveryReasonerCallSucceeded) =>
        /\ ~should_retry("deep_analyzer")
        /\ Len(reports) = deep_analyzer_attempts
        /\ accumulated_context # <<>>
        /\ final_report = reports[Len(reports)]

\* The lines of the files that match a regex of the pattern, as (file, line).
MatchingLines(files, pattern) ==
    {hit \in UNION {{<<k, i>> : i \in 1..Len(files[k].lines)} : k \in 1..Len(files)} :
        \E n \in 1..Len(pattern.patterns) :
            Contains(files[hit[1]].lines[hit[2]], pattern.patterns[n])}

\* C24 (as claimed): when the alert has a curated pattern and the searched
\* tree holds exactly one line matching the pattern, in a code file that is
\* not a test file, find_vulnerable_usage returns exactly one CodeMatch and
\* analyze_exploitability returns true with a reasoning that names the file.
C24_OneMatchingLineIsExploitable ==
    LET pattern == _get_vulnerability_pattern(query.package_name, query.vulnerability_id)
    IN  (/\ pc = "analyzed"
         /\ query.search_scope = <<>>
         /\ pattern # NoneObj
         /\ Cardinality(MatchingLines(tree, pattern)) = 1)
        => \A hit \in MatchingLines(tree, pattern) :
              (/\ _is_code_file(FileName(tree[hit[1]].path))
               /\ ~ _is_test_file(tree[hit[1]].path))
              => /\ Len(code_matches) = 1
                 /\ exploitability.is_exploitable
                 /\ \E n \in 1..Len(exploitability.listed) :
                       exploitability.listed[n].file_path = tree[hit[1]].path

\* The files of the tree in which the package name appears.
FilesNaming(files, package_name) ==
    {k \in 1..Len(files) :
        \E i \in 1..Len(files[k].lines) : Contains(files[k].lines[i], package_name)}

\* The search has no curated pattern and no reasoning client, and the package
\* name appears in the tree, but only in files whose path matches a test-name
\* pattern.
OnlyTestFilesNameThePackage ==
    /\ _get_vulnerability_pattern(query.package_name, query.vulnerability_id) = NoneObj
    /\ ~ query.llm
    /\ FilesNaming(tree, query.package_name) # {}
    /\ \A k \in FilesNaming(tree, query.package_name) :
          \E pattern \in TEST_FILE_PATTERNS : Contains(lower(tree[k].path), pattern)

\* C25 (as claimed): with no curated pattern and no reasoning client, when the
\* package name appears only inside a file matching a test-name pattern,
\* analyze_exploitability returns false with the reasoning that the matches
\* are in test/mock code.
C25_TestOnlyUsageReportedAsTestCode ==
    (pc = "analyzed" /\ OnlyTestFilesNameThePackage)
    => /\ ~ exploitability.is_exploitable
       /\ exploitability.reasoning
             = "Found {} matches but all appear to be in test/mock code"

\* C25 (amended): in that case the generic search returns no match, because
\* the test file is never collected, and analyze_exploitability returns false
\* with the reasoning that no vulnerable function usage was found.
C25_TestOnlyUsageFindsNothing ==
    (pc = "analyzed" /\ OnlyTestFilesNameThePackage)
    => /\ code_matches = <<>>
       /\ ~ exploitability.is_exploitable
       /\ exploitability.reasoning
             = "Package is imported but no vulnerable function usage found"

\* A generic search over a tree whose only file naming the package is
\* src/app.test.js has been analysed.
C25_Witness ==
    /\ pc = "analyzed"
    /\ OnlyTestFilesNameThePackage
    /\ \E k \in FilesNaming(tree, query.package_name) :
          tree[k].path = <<"s","r","c","/","a","p","p",".","t","e","s","t",".","j","s">>
    /\ ~ exploitability.is_exploitable

\* ask_structured is over: it returned a value or raised the ValueError.
ParseEnded == pc \in {"parse_returned", "parse_raised"}

\* C21: when the response is a dict serialised as JSON (compact or indented),
\* as it is or inside a ```json or ``` fence, with or without stray
\* whitespace around it, ask_structured returns a dict equal to that dict.
C21_RoundTrip ==
    (ParseEnded /\ sent.form = "json")
    => /\ parsed.returned
       /\ parsed.value = sent.value

\* A dict with a member that holds a fence was sent inside a ```json fence
\* with stray whitespace around it, and came back from stage 2.
C21_Witness ==
    /\ pc = "parse_returned"
    /\ sent.form = "json"
    /\ response # strip(response)
    /\ startswith(strip(response), FenceJson)
    /\ \E k \in 1..Len(sent.value.members) :
          sent.value.members[k].value = JsonString(Fence)
    /\ parsed.stage = 2
    /\ parsed.value = sent.value

\* C22 (as claimed): a response that is a JSON object with one unterminated
\* trailing string value and one missing closing brace is parsed successfully,
\* and a response that is a JSON object without errors is returned by the
\* first two stages as it was sent, without the repair.
C22_TruncatedObjectIsRepaired ==
    ParseEnded
    => /\ sent.form = "truncated" => parsed.returned
       /\ sent.form = "json"
             => /\ parsed.returned
                /\ parsed.stage \in {1, 2}
                /\ parsed.value = sent.value

\* C23: the result is that of the first of the three stages that parses, in
\* the order 1, 2, 3; when none parses, ask_structured raises the ValueError
\* with the first excerpt_length characters of the response and returns no
\* value.
C23_FirstSuccessOrError ==
    ParseEnded
    => IF Stage1(response).ok THEN parsed = Returned(1, Stage1(response).value)
       ELSE IF Stage2(response).ok THEN parsed = Returned(2, Stage2(response).value)
       ELSE IF Stage3(response).ok THEN parsed = Returned(3, Stage3(response).value)
       ELSE /\ pc = "parse_raised"
            /\ ~ parsed.returned
            /\ IsPrefix(parsed.excerpt, response)
            /\ Len(parsed.excerpt) =
                  (IF Len(response) < excerpt_length THEN Len(response)
                   ELSE excerpt_length)

\* A response longer than the excerpt parsed at no stage: the ValueError
\* carries its first excerpt_length characters.
C23_Witness ==
    /\ pc = "parse_raised"
    /\ Len(response) > excerpt_length
    /\ ~ Stage1(response).ok /\ ~ Stage2(response).ok /\ ~ Stage3(response).ok
    /\ ~ parsed.returned
    /\ Len(parsed.excerpt) = excerpt_length

\* C36 (as claimed): every value ask_structured returns is a JSON object; a
\* response whose top-level JSON value is an array, a string, a number, a
\* boolean or null ends in the ValueError.
C36_OnlyObjectsReturned ==
    ParseEnded
    => /\ parsed.returned => parsed.value.t = "obj"
       /\ (json_loads(response).ok /\ json_loads(response).value.t # "obj")
             => ~ parsed.returned

\* The members of the dict sent that are complete in a truncated response:
\* all but the last one, whose string is cut off.
CompleteMembers(d) == SubSeq(d.members, 1, Len(d.members) - 1)

\* C38 (as claimed): when ask_structured returns through the stage-3 repair,
\* the object returned holds every member, key and value, that is complete in
\* the raw response.
C38_RepairKeepsCompleteMembers ==
    (pc = "parse_returned" /\ parsed.stage = 3 /\ sent.form = "truncated")
    => /\ parsed.value.t = "obj"
       /\ \A k \in 1..Len(CompleteMembers(sent.value)) :
             \E j \in 1..Len(parsed.value.members) :
                parsed.value.members[j] = CompleteMembers(sent.value)[k]

\* The line numbered line_number of a file with the given number of lines
\* before it and after it, as far as the file has them, joined by newlines.
ContextWindow(lines, line_number, before, after) ==
    LET first == IF line_number - before < 1 THEN 1 ELSE line_number - before
        last == IF line_number + after > Len(lines) THEN Len(lines)
                ELSE line_number + after
    IN  join(<<"\n">>, SubSeq(lines, first, last))

\* C39 (as claimed): every CodeMatch of the pattern search carries as context
\* the matched line with the 5 lines before it and the 5 lines after it, fewer
\* only where the file starts or ends.
C39_ContextIsFiveLinesEitherSide ==
    (pc \in {"searched", "analyzed"} /\ SearchPattern(query) # NoneObj)
    => \A n \in 1..Len(code_matches) :
          \E k \in 1..Len(tree) :
             /\ tree[k].path = code_matches[n].file_path
             /\ code_matches[n].context =
                   ContextWindow(tree[k].lines, code_matches[n].line_number, 5, 5)

\* The elements of a sequence.
Range(seq) == {seq[k] : k \in 1..Len(seq)}

C40_WorkflowSearchIsScopedToManifest ==
    LET scope == get_search_scope_from_manifest(query.manifest_path)
        visited == _get_code_files(tree, query.search_scope, default_max_files)
    IN  (/\ pc \in {"searched", "analyzed"}
         /\ query.search_scope = OrchestratorSearchScope
         /\ scope # <<>>
         /\ DirectoryExists(tree, scope))
        => /\ \A k \in 1..Len(visited) : startswith(visited[k].path, scope \o <<"/">>)
           /\ \A n \in 1..Len(code_matches) :
                 startswith(code_matches[n].file_path, scope \o <<"/">>)

\* The position of a phase in the order of the run; completed and failed are
\* the two terminal phases.
PhaseRank(phase) ==
    CASE phase = "initial" -> 0
      [] phase = "code_analysis" -> 1
      [] phase = "deep_analysis" -> 2
      [] phase = "reflection" -> 3
      [] phase = "fp_check" -> 4
      [] phase \in {"completed", "failed"} -> 5

C32_ExecutionLogOrder ==
    LET h == execution_history
    IN  /\ pc # "code_analysis" => Len(h) >= 1
        /\ pc \notin {"code_analysis", "code_context"} => Len(h) >= 2
        /\ Len(h) >= 1 => h[1].agent_name = "code_analyzer"
        /\ Len(h) >= 2 => h[2].agent_name = "alert_fetcher"
        /\ \A k \in 3..Len(h) :
              h[k].agent_name \in
                 {"deep_analyzer", "reflection_agent", "false_positive_checker"}
        /\ \A k \in 1..Len(h) :
              h[k].agent_name = "reflection_agent"
                 => /\ k > 1
                    /\ h[k - 1].agent_name = "deep_analyzer"
                    /\ h[k - 1].success
        /\ \A k \in 1..Len(h) :
              h[k].agent_name = "false_positive_checker" => k = Len(h)

\* C32 witness: the log of a finished run holds the code search, the context
\* fetch, a failed reasoner attempt and a successful one, in this order.
C32_Witness ==
    /\ RunEnded
    /\ Len(execution_history) = 4
    /\ execution_history[3].agent_name = "deep_analyzer"
    /\ ~execution_history[3].success
    /\ execution_history[4].agent_name = "deep_analyzer"
    /\ execution_history[4].success

\* The pieces of an accumulated context, without the separators between them.
Pieces(context) == [k \in 1..((Len(context) + 1) \div 2) |-> context[2 * k - 1]]

\* C33: the first analyze call of a run receives no previous-attempts context
\* (None); every later call receives the accumulated context, which holds one
\* piece per earlier failed reasoner attempt and per earlier reflection that
\* commanded a retry, the notes of the failed attempts in the order of the
\* attempts.
C33_ReasonerContext ==
    pc = "analyzing" =>
        LET failed == SelectSeq(ExecutionsOf("deep_analyzer"), LAMBDA e : ~e.success)
            reflections == ExecutionsOf("reflection_agent")
        IN  /\ deep_analyzer_attempts = 1 => previous_attempts = NoneObj
            /\ deep_analyzer_attempts > 1
                  => /\ previous_attempts # NoneObj
                     /\ previous_attempts.context = accumulated_context
                     /\ Len(Pieces(previous_attempts.context)) =
                           Len(failed) + Len(reflections)
                     /\ SelectSeq(Pieces(previous_attempts.context),
                                  LAMBDA n : n[1] = "Previous attempt failed")
                           = [k \in 1..Len(failed) |->
                                 <<"Previous attempt failed", failed[k].metadata.attempt,
                                   failed[k].error_message>>]

\* C33 witness: the third analyze call of a run is under way and has received
\* the notes of the two failed attempts before it.
C33_Witness ==
    /\ pc = "analyzing"
    /\ deep_analyzer_attempts = 3
    /\ previous_attempts # NoneObj
    /\ Len(Pieces(previous_attempts.context)) = 2
    /\ previous_attempts.context[1][2] = 1
    /\ previous_attempts.context[3][2] = 2

\* C35 (as claimed): when every reasoner call succeeds and the reflection
\* commands search_more_code, the run ends with the context note of the
\* reflection appended and no further reasoner call; the code search is
\* invoked exactly once per run, and code_matches is not modified once the
\* code_analysis phase is over.  The reflection is never consulted, so its
\* command is no input of the run.
C35_SearchMoreCodeEndsLoop ==
    /\ []((RunEnded /\ EveryReasonerCallSucceeded)
             => /\ Len(accumulated_context) = 1
                /\ deep_analyzer_attempts = 1)
    /\ [](pc # "code_analysis" => code_analyzer_attempts = 1)
    /\ [][pc # "code_analysis" => code_matches' = code_matches]_vars

====
